---- MODULE Spec2Model ----
(***************************************************************************)
(* The update queue of a MeiliSearch index: the Updates and UpdatesResults *)
(* stores of the update environment, the functions that allocate update    *)
(* ids and report update statuses, update_task and the settings applier    *)
(* working on the main environment, and the single update processor.       *)
(***************************************************************************)
EXTENDS Integers, Sequences, FiniteSets, TLC

\* Number of update ids the model lets the enqueuers allocate.
MaxUpdates == 3

\* Number of updates the applier specification applies in a row.
MaxApplied == 4

\* Number of main write transactions that are interleaved with the readers.
MaxWrites == 2

\* Number of rows put under byte keys.
MaxKeys == 3

\* Number of document requests that may enqueue, two updates each.
MaxRequests == 2

\* Number of bare matches of a raw document.
MaxBareMatches == 2

\* Number of indexes created.
MaxIndexes == 3

\* store::clear is called while the clock is at most this.
MaxClearClock == 3

\* Request-serving threads that enqueue updates.
Threads == {"t1", "t2"}
NoThread == "none"

----------------------------------------------------------------------------
VARIABLES
    Updates,         \* the Updates store, committed
    UpdatesResults,  \* the UpdatesResults store, committed
    main,            \* the main environment, committed
    writer,          \* the thread holding the update write transaction
    wUpdates,        \* the Updates store as that transaction sees it
    notifier,        \* a NewUpdate event waits in updates_notifier
    proc,            \* the update processor: [pc, id]
    clock,           \* Utc::now()
    readers,         \* the request threads: the main read transaction of
                     \* each, the request it answered last and its answer
    rows,            \* the rows of DocumentsFields, DocumentsFieldsCounts
                     \* and Updates under their byte keys
    indexes,         \* the indexes created, each with the names of the
                     \* databases its stores were opened under
    highlighted      \* the raw document highlighted last and its highlights

vars == <<Updates, UpdatesResults, main, writer, wUpdates, notifier, proc, clock,
          readers, rows, indexes, highlighted>>

----------------------------------------------------------------------------
\* Option<T> is a set with at most one element.
None == {}
Some(x) == {x}
Unwrap(o) == CHOOSE x \in o : TRUE

SetMax(S) == CHOOSE x \in S : \A y \in S : y <= x
SetMin(S) == CHOOSE x \in S : \A y \in S : x <= y

\* The function with the empty domain: an empty store.
EmptyFcn == [x \in {} |-> x]

\* settings::UpdateState<T>
Nothing == [state |-> "Nothing"]
Clear == [state |-> "Clear"]
UpdateOf(v) == [state |-> "Update", v |-> v]

\* SettingsUpdate::default(): every field Nothing.
DefaultSettings ==
    [ranking_rules |-> Nothing, ranking_distinct |-> Nothing,
     index_new_fields |-> Nothing, searchable_attributes |-> Nothing,
     displayed_attributes |-> Nothing, identifier |-> Nothing,
     stop_words |-> Nothing, synonyms |-> Nothing]

----------------------------------------------------------------------------
\* error.rs: Display of UnsupportedOperation and of Error.
UnsupportedOperationToString(op) ==
    CASE op = "SchemaAlreadyExists" -> "Cannot update index which already have a schema"
      [] op = "CannotUpdateSchemaIdentifier" -> "Cannot update the identifier of a schema"
      [] op = "CannotReorderSchemaAttribute" -> "Cannot reorder the attributes of a schema"
      [] op = "CanOnlyIntroduceNewSchemaAttributesAtEnd" ->
             "Can only introduce new attributes at end of a schema"
      [] op = "CannotRemoveSchemaAttribute" -> "Cannot remove attributes from a schema"

\* An Error is [kind |-> k] or [kind |-> "UnsupportedOperation", op |-> o].
ErrorToString(e) ==
    CASE e.kind = "MissingIdentifier" -> "schema cannot be build without identifier"
      [] e.kind = "SchemaMissing" -> "this index does not have a schema"
      [] e.kind = "MissingDocumentId" -> "document id is missing"
      [] e.kind = "UnsupportedOperation" ->
             "unsupported operation; " \o UnsupportedOperationToString(e.op)

MissingIdentifier == [kind |-> "MissingIdentifier"]
SchemaMissing == [kind |-> "SchemaMissing"]
Unsupported(op) == [kind |-> "UnsupportedOperation", op |-> op]

----------------------------------------------------------------------------
\* The main environment as one write transaction sees it.  An aborted
\* transaction leaves the committed value untouched, a committed one
\* replaces it.
\* Main holds schema, ranking_rules, ranking_distinct, stop_words (the
\* stop-words FST), synonyms_fst, words_fst and customs; synonyms,
\* postings_lists, documents (DocumentsFields), documents_fields_counts and
\* docs_words are the other sub-databases.  A posting is
\* [document_id, attribute], the attribute being an IndexedPos.
\* number_of_documents is the counter of Main, 0 while it was never written.
EmptyMain ==
    [schema |-> None, ranking_rules |-> None, ranking_distinct |-> None,
     stop_words |-> None, synonyms_fst |-> None, words_fst |-> None,
     customs |-> None, number_of_documents |-> 0, synonyms |-> EmptyFcn, postings_lists |-> EmptyFcn,
     documents |-> EmptyFcn, documents_fields_counts |-> EmptyFcn,
     docs_words |-> EmptyFcn]

Range(s) == {s[i] : i \in 1..Len(s)}
IsPrefix(a, b) == Len(a) <= Len(b) /\ \A i \in 1..Len(a) : a[i] = b[i]

\* An MResult<()> of a step that works on a schema: the schema it leaves
\* and the error it returned, if any.
SchemaOk(schema) == [schema |-> schema, err |-> None]
SchemaErr(schema, e) == [schema |-> schema, err |-> Some(e)]

\* Schema::with_identifier
with_identifier(name) ==
    [identifier |-> name, ranked |-> {}, indexed |-> <<>>, displayed |-> {},
     index_new_fields |-> TRUE]

\* Schema::update_ranked
update_ranked(schema, names) == SchemaOk([schema EXCEPT !.ranked = Range(names)])

\* Schema::update_displayed
update_displayed(schema, names) == SchemaOk([schema EXCEPT !.displayed = Range(names)])

\* Schema::set_index_new_fields
set_index_new_fields(schema, v) == [schema EXCEPT !.index_new_fields = v]

\* Schema::update_indexed: the list given becomes the indexed attributes.
\* The tests of the settings route write a shorter list in another order
\* over a longer one, and clear the list, and read the new list back.
update_indexed(schema, names) == SchemaOk([schema EXCEPT !.indexed = names])

\* Schema::set_identifier: fails when the schema has another identifier.
set_identifier(schema, name) ==
    IF schema.identifier = name
    THEN SchemaOk(schema)
    ELSE SchemaErr(schema, Unsupported("CannotUpdateSchemaIdentifier"))

\* Schema::id: the FieldId of a name the schema holds, as the identifier or
\* among the ranked, indexed or displayed attributes.
schema_id(schema, name) ==
    IF name \in {schema.identifier} \cup schema.ranked \cup Range(schema.indexed)
                \cup schema.displayed
    THEN Some(name) ELSE None

\* Schema::indexed_pos_to_field_id: the field at a position of the indexed
\* attributes, if the position is one of theirs.  A field is known by its name.
indexed_pos_to_field_id(schema, pos) ==
    IF pos \in 1..Len(schema.indexed) THEN Some(schema.indexed[pos]) ELSE None

\* RankingRule::get_field over a list of rules: the fields of the asc/dsc rules.
ranked_field(rules) ==
    LET pick[i \in 0..Len(rules)] ==
            IF i = 0 THEN <<>>
            ELSE IF rules[i].kind \in {"Asc", "Dsc"}
                 THEN Append(pick[i - 1], rules[i].field)
                 ELSE pick[i - 1]
    IN pick[Len(rules)]

----------------------------------------------------------------------------
\* The tokenizer, for the texts the documents of the model hold: the
\* lowercased words of a text, in order.
Tokenize(text) ==
    CASE text = "the wolf" -> <<"the", "wolf">>
      [] text = "a wolf" -> <<"a", "wolf">>
      [] OTHER -> <<text>>

\* stop_words_fst(writer).unwrap_or_default(), words_fst alike
FstOrDefault(fst) == IF fst = None THEN {} ELSE Unwrap(fst)

\* The words a document holds at an indexed position: its field is
\* tokenized and the stop words are filtered out.
IndexedWords(schema, stop_words, doc, pos) ==
    IF schema.indexed[pos] \in DOMAIN doc
    THEN Range(Tokenize(doc[schema.indexed[pos]])) \ stop_words
    ELSE {}

\* The postings of the stored documents ids, by word, under the schema and
\* the stop words of the writer.
DocumentsPostings(w, ids) ==
    LET schema == Unwrap(w.schema)
        stop_words == FstOrDefault(w.stop_words)
    IN UNION {UNION {{[word |-> word, document_id |-> id, attribute |-> pos] :
                         word \in IndexedWords(schema, stop_words, w.documents[id], pos)} :
                     pos \in 1..Len(schema.indexed)} :
              id \in ids}

\* The documents ids leave the index: for every word DocsWords names for
\* them their postings are removed, a posting list left empty is deleted,
\* their DocumentsFieldsCounts and DocsWords rows are removed, and the words
\* FST is rebuilt from the keys of the posting lists that survive.
UnindexDocuments(w, ids) ==
    LET words == UNION {w.docs_words[id] : id \in ids \cap DOMAIN w.docs_words}
        left(word) == IF word \in words
                      THEN {p \in w.postings_lists[word] : p.document_id \notin ids}
                      ELSE w.postings_lists[word]
        kept == {word \in DOMAIN w.postings_lists : left(word) # {}}
    IN [w EXCEPT !.postings_lists = [word \in kept |-> left(word)],
                 !.documents_fields_counts =
                     [id \in DOMAIN w.documents_fields_counts \ ids |->
                         w.documents_fields_counts[id]],
                 !.docs_words = [id \in DOMAIN w.docs_words \ ids |-> w.docs_words[id]],
                 !.words_fst = Some(kept)]

\* The stored documents ids enter the index: their postings are united
\* into the posting lists, their DocsWords and DocumentsFieldsCounts rows are
\* rewritten, and the words FST becomes the keys of the posting lists
\* united with the previous words FST, less the stop words.
IndexDocuments(w, ids) ==
    LET schema == Unwrap(w.schema)
        stop_words == FstOrDefault(w.stop_words)
        new == DocumentsPostings(w, ids)
        words == DOMAIN w.postings_lists \cup {p.word : p \in new}
        list(word) ==
            (IF word \in DOMAIN w.postings_lists THEN w.postings_lists[word] ELSE {})
            \cup {[document_id |-> p.document_id, attribute |-> p.attribute] :
                     p \in {q \in new : q.word = word}}
        positions(id) == {pos \in 1..Len(schema.indexed) :
                             schema.indexed[pos] \in DOMAIN w.documents[id]}
    IN [w EXCEPT !.postings_lists = [word \in words |-> list(word)],
                 !.docs_words =
                     [id \in DOMAIN w.docs_words \cup ids |->
                         IF id \in ids THEN {p.word : p \in {q \in new : q.document_id = id}}
                         ELSE w.docs_words[id]],
                 !.documents_fields_counts =
                     [id \in DOMAIN w.documents_fields_counts \cup ids |->
                         IF id \in ids
                         THEN [pos \in positions(id) |->
                                  Cardinality(IndexedWords(schema, stop_words,
                                                           w.documents[id], pos))]
                         ELSE w.documents_fields_counts[id]],
                 !.words_fst = Some((words \cup FstOrDefault(w.words_fst)) \ stop_words)]

\* apply_stop_words_addition without the deletion of the posting lists.
apply_stop_words_addition_keeps_postings(w, addition) ==
    LET w2 == IF w.words_fst # None
              THEN [w EXCEPT !.words_fst = Some(Unwrap(w.words_fst) \ addition)]
              ELSE w
        stop_words_fst == FstOrDefault(w2.stop_words)
    IN [w2 EXCEPT !.stop_words = Some(stop_words_fst \cup addition)]

\* apply_stop_words_addition without the difference on the words FST.
apply_stop_words_addition_keeps_words_fst(w, addition) ==
    LET postings == [word \in DOMAIN w.postings_lists \ addition |->
                        w.postings_lists[word]]
        w1 == [w EXCEPT !.postings_lists = postings]
        stop_words_fst == FstOrDefault(w1.stop_words)
    IN [w1 EXCEPT !.stop_words = Some(stop_words_fst \cup addition)]

\* apply_stop_words_addition: the posting list of every new stop word is
\* deleted, the new stop words leave the words FST when there is one, and
\* they join the stop-words FST.
apply_stop_words_addition(w, addition) ==
    LET postings == [word \in DOMAIN w.postings_lists \ addition |->
                        w.postings_lists[word]]
        w1 == [w EXCEPT !.postings_lists = postings]
        w2 == IF w1.words_fst # None
              THEN [w1 EXCEPT !.words_fst = Some(Unwrap(w1.words_fst) \ addition)]
              ELSE w1
        stop_words_fst == FstOrDefault(w2.stop_words)
    IN [w2 EXCEPT !.stop_words = Some(stop_words_fst \cup addition)]

\* apply_stop_words_deletion writing the stop-word FST back as it was.
apply_stop_words_deletion_keeps_stop_words(w, deletion) ==
    LET stop_words_fst == IF w.stop_words = None THEN {} ELSE Unwrap(w.stop_words)
    IN [w EXCEPT !.stop_words = Some(stop_words_fst)]

\* apply_stop_words_deletion: the words leave the stop-word FST.
apply_stop_words_deletion(w, deletion) ==
    LET stop_words_fst == IF w.stop_words = None THEN {} ELSE Unwrap(w.stop_words)
    IN [w EXCEPT !.stop_words = Some(stop_words_fst \ deletion)]

\* apply_stop_words_update: the writer it leaves and whether a reindex is due.
apply_stop_words_update(w, stop_words) ==
    LET old_stop_words == IF w.stop_words = None THEN {} ELSE Unwrap(w.stop_words)
        deletion == old_stop_words \ stop_words
        addition == stop_words \ old_stop_words
        w1 == IF addition # {} THEN apply_stop_words_addition(w, addition) ELSE w
        w2 == IF deletion # {} THEN apply_stop_words_deletion(w1, deletion) ELSE w1
    IN [w |-> w2, must_reindex |-> (deletion # {})]

\* apply_synonyms_update without synonyms_store.clear.
apply_synonyms_update_no_clear(w, synonyms) ==
    [w EXCEPT !.synonyms = [word \in DOMAIN w.synonyms \cup DOMAIN synonyms |->
                               IF word \in DOMAIN synonyms THEN Range(synonyms[word])
                               ELSE w.synonyms[word]],
              !.synonyms_fst = Some(DOMAIN synonyms)]

\* apply_synonyms_update: the Synonyms store and the synonyms FST are rebuilt
\* from the map; SetBuf::from_dirty sorts and deduplicates the alternatives.
apply_synonyms_update(w, synonyms) ==
    [w EXCEPT !.synonyms = [word \in DOMAIN synonyms |-> Range(synonyms[word])],
              !.synonyms_fst = Some(DOMAIN synonyms)]

\* reindex_all_documents: the posting lists, DocsWords, the counts and the
\* words FST are emptied and every document of DocumentsFields is tokenized
\* again, with the schema and the stop words the writer holds by then.
reindex_all_documents(w) ==
    LET cleared == [w EXCEPT !.postings_lists = EmptyFcn,
                             !.docs_words = EmptyFcn,
                             !.documents_fields_counts = EmptyFcn,
                             !.words_fst = Some({})]
    IN IndexDocuments(cleared, DOMAIN w.documents)

\* The steps of apply_settings_update thread a context: the writer, the
\* schema being edited, must_reindex, and the error a step returned with `?`.
\* A step is skipped once an error has been returned.
\* The schema derived also from an identifier that is Clear.
SettingsSchema_clear_creates(w, settings) ==
    IF w.schema # None
    THEN [w |-> w, schema |-> Unwrap(w.schema), must_reindex |-> FALSE, err |-> None]
    ELSE IF settings.identifier.state = "Update"
    THEN [w |-> w, schema |-> with_identifier(settings.identifier.v),
          must_reindex |-> FALSE, err |-> None]
    ELSE IF settings.identifier.state = "Clear"
    THEN [w |-> w, schema |-> with_identifier(""), must_reindex |-> FALSE, err |-> None]
    ELSE [w |-> w, schema |-> with_identifier(""), must_reindex |-> FALSE,
          err |-> Some(MissingIdentifier)]

SettingsSchema(w, settings) ==
    IF w.schema # None
    THEN [w |-> w, schema |-> Unwrap(w.schema), must_reindex |-> FALSE, err |-> None]
    ELSE IF settings.identifier.state = "Update"
    THEN [w |-> w, schema |-> with_identifier(settings.identifier.v),
          must_reindex |-> FALSE, err |-> None]
    ELSE [w |-> w, schema |-> with_identifier(""), must_reindex |-> FALSE,
          err |-> Some(MissingIdentifier)]

SettingsRankingRules(c, settings) ==
    IF c.err # None THEN c
    ELSE CASE settings.ranking_rules.state = "Update" ->
                LET v == settings.ranking_rules.v
                    r == update_ranked(c.schema, ranked_field(v))
                IN IF r.err # None THEN [c EXCEPT !.err = r.err]
                   ELSE [c EXCEPT !.schema = r.schema,
                                  !.w.ranking_rules = Some(v),
                                  !.must_reindex = TRUE]
           [] settings.ranking_rules.state = "Clear" ->
                LET r == update_ranked(c.schema, <<>>)
                IN IF r.err # None THEN [c EXCEPT !.err = r.err]
                   ELSE [c EXCEPT !.schema = r.schema,
                                  !.w.ranking_rules = None,
                                  !.must_reindex = TRUE]
           [] OTHER -> c

\* The ranking_distinct step leaving a stored value where it is on Clear.
SettingsRankingDistinct_clear_keeps(c, settings) ==
    IF c.err # None THEN c
    ELSE CASE settings.ranking_distinct.state = "Update" ->
                [c EXCEPT !.w.ranking_distinct = Some(settings.ranking_distinct.v)]
           [] OTHER -> c

SettingsRankingDistinct(c, settings) ==
    IF c.err # None THEN c
    ELSE CASE settings.ranking_distinct.state = "Update" ->
                [c EXCEPT !.w.ranking_distinct = Some(settings.ranking_distinct.v)]
           [] settings.ranking_distinct.state = "Clear" ->
                [c EXCEPT !.w.ranking_distinct = None]
           [] OTHER -> c

SettingsIndexNewFields(c, settings) ==
    IF c.err # None THEN c
    ELSE CASE settings.index_new_fields.state = "Update" ->
                [c EXCEPT !.schema = set_index_new_fields(@, settings.index_new_fields.v)]
           [] settings.index_new_fields.state = "Clear" ->
                [c EXCEPT !.schema = set_index_new_fields(@, TRUE)]
           [] OTHER -> c

SettingsSearchableAttributes(c, settings) ==
    IF c.err # None THEN c
    ELSE CASE settings.searchable_attributes.state = "Update" ->
                LET r == update_indexed(c.schema, settings.searchable_attributes.v)
                IN IF r.err # None THEN [c EXCEPT !.err = r.err]
                   ELSE [c EXCEPT !.schema = r.schema, !.must_reindex = TRUE]
           [] settings.searchable_attributes.state = "Clear" ->
                LET r == update_indexed(c.schema, <<>>)
                IN IF r.err # None THEN [c EXCEPT !.err = r.err]
                   ELSE [c EXCEPT !.schema = r.schema, !.must_reindex = TRUE]
           [] OTHER -> c

\* The displayed_attributes step asking for a reindex.
SettingsDisplayedAttributes_reindexes(c, settings) ==
    IF c.err # None THEN c
    ELSE CASE settings.displayed_attributes.state = "Update" ->
                LET r == update_displayed(c.schema, settings.displayed_attributes.v)
                IN IF r.err # None THEN [c EXCEPT !.err = r.err]
                   ELSE [c EXCEPT !.schema = r.schema, !.must_reindex = TRUE]
           [] settings.displayed_attributes.state = "Clear" ->
                LET r == update_displayed(c.schema, <<>>)
                IN IF r.err # None THEN [c EXCEPT !.err = r.err]
                   ELSE [c EXCEPT !.schema = r.schema, !.must_reindex = TRUE]
           [] OTHER -> c

SettingsDisplayedAttributes(c, settings) ==
    IF c.err # None THEN c
    ELSE CASE settings.displayed_attributes.state = "Update" ->
                LET r == update_displayed(c.schema, settings.displayed_attributes.v)
                IN IF r.err # None THEN [c EXCEPT !.err = r.err]
                   ELSE [c EXCEPT !.schema = r.schema]
           [] settings.displayed_attributes.state = "Clear" ->
                LET r == update_displayed(c.schema, <<>>)
                IN IF r.err # None THEN [c EXCEPT !.err = r.err]
                   ELSE [c EXCEPT !.schema = r.schema]
           [] OTHER -> c

\* The identifier step writing the identifier it is given into the schema.
SettingsIdentifier_overwrites(c, settings) ==
    IF c.err # None THEN c
    ELSE IF settings.identifier.state = "Update"
    THEN LET schema == [c.schema EXCEPT !.identifier = settings.identifier.v]
         IN [c EXCEPT !.schema = schema, !.w.schema = Some(schema),
                      !.must_reindex = TRUE]
    ELSE [c EXCEPT !.w.schema = Some(c.schema)]

SettingsIdentifier(c, settings) ==
    IF c.err # None THEN c
    ELSE IF settings.identifier.state = "Update"
    THEN LET r == set_identifier(c.schema, settings.identifier.v)
         IN IF r.err # None THEN [c EXCEPT !.err = r.err]
            ELSE [c EXCEPT !.schema = r.schema,
                           !.w.schema = Some(r.schema),
                           !.must_reindex = TRUE]
    ELSE [c EXCEPT !.w.schema = Some(c.schema)]

\* The stop_words step taking Nothing for Clear.
SettingsStopWords_nothing_clears(c, settings) ==
    IF c.err # None THEN c
    ELSE CASE settings.stop_words.state = "Update" ->
                LET r == apply_stop_words_update(c.w, settings.stop_words.v)
                IN [c EXCEPT !.w = r.w, !.must_reindex = @ \/ r.must_reindex]
           [] OTHER ->
                LET r == apply_stop_words_update(c.w, {})
                IN [c EXCEPT !.w = r.w, !.must_reindex = @ \/ r.must_reindex]

SettingsStopWords(c, settings) ==
    IF c.err # None THEN c
    ELSE CASE settings.stop_words.state = "Update" ->
                LET r == apply_stop_words_update(c.w, settings.stop_words.v)
                IN [c EXCEPT !.w = r.w, !.must_reindex = @ \/ r.must_reindex]
           [] settings.stop_words.state = "Clear" ->
                LET r == apply_stop_words_update(c.w, {})
                IN [c EXCEPT !.w = r.w, !.must_reindex = @ \/ r.must_reindex]
           [] OTHER -> c

SettingsSynonyms(c, settings) ==
    IF c.err # None THEN c
    ELSE CASE settings.synonyms.state = "Update" ->
                [c EXCEPT !.w = apply_synonyms_update(@, settings.synonyms.v)]
           [] settings.synonyms.state = "Clear" ->
                [c EXCEPT !.w = apply_synonyms_update(@, EmptyFcn)]
           [] OTHER -> c

\* The last step without the deletion of the schema.
SettingsReindex_keeps_schema(c, settings) ==
    IF c.err # None THEN c
    ELSE [c EXCEPT !.w = IF c.must_reindex THEN reindex_all_documents(c.w) ELSE c.w]

SettingsReindex(c, settings) ==
    IF c.err # None THEN c
    ELSE LET w1 == IF c.must_reindex THEN reindex_all_documents(c.w) ELSE c.w
             w2 == IF settings.identifier.state = "Clear"
                   THEN [w1 EXCEPT !.schema = None] ELSE w1
         IN [c EXCEPT !.w = w2]

\* apply_settings_update with the reindex ahead of the stop words and the
\* synonyms.
apply_settings_update_reindex_early(w, settings) ==
    LET s0 == {SettingsSchema(w, settings)}
        s1 == {SettingsRankingRules(c, settings) : c \in s0}
        s2 == {SettingsRankingDistinct(c, settings) : c \in s1}
        s3 == {SettingsIndexNewFields(c, settings) : c \in s2}
        s4 == {SettingsSearchableAttributes(c, settings) : c \in s3}
        s5 == {SettingsDisplayedAttributes(c, settings) : c \in s4}
        s6 == {SettingsIdentifier(c, settings) : c \in s5}
        s7 == {SettingsReindex(c, [settings EXCEPT !.identifier = Nothing]) : c \in s6}
        s8 == {SettingsStopWords(c, settings) : c \in s7}
        s9 == {SettingsSynonyms(c, settings) : c \in s8}
    IN Unwrap({[w |-> IF settings.identifier.state = "Clear" /\ c.err = None
                      THEN [c.w EXCEPT !.schema = None] ELSE c.w,
                err |-> c.err] : c \in s9})

\* apply_settings_update: the writer as the function leaves it (with the
\* writes made before an error) and the error it returned, if any.  Each
\* step works on the value the step before it left.
apply_settings_update(w, settings) ==
    LET s0 == {SettingsSchema(w, settings)}
        s1 == {SettingsRankingRules(c, settings) : c \in s0}
        s2 == {SettingsRankingDistinct(c, settings) : c \in s1}
        s3 == {SettingsIndexNewFields(c, settings) : c \in s2}
        s4 == {SettingsSearchableAttributes(c, settings) : c \in s3}
        s5 == {SettingsDisplayedAttributes(c, settings) : c \in s4}
        s6 == {SettingsIdentifier(c, settings) : c \in s5}
        s7 == {SettingsStopWords(c, settings) : c \in s6}
        s8 == {SettingsSynonyms(c, settings) : c \in s7}
        s9 == {SettingsReindex(c, settings) : c \in s8}
    IN Unwrap({[w |-> c.w, err |-> c.err] : c \in s9})

----------------------------------------------------------------------------
\* The other appliers update_task dispatches to.

\* apply_clear_all works on the stores update_task hands to it: Main,
\* DocumentsFields, DocumentsFieldsCounts, PostingsLists and DocsWords are
\* cleared and the words FST is reset to the empty set.  The Synonyms store
\* is not among them.
apply_clear_all(w) ==
    [w |-> [EmptyMain EXCEPT !.words_fst = Some({}), !.synonyms = w.synonyms],
     err |-> None]

\* apply_customs_update: the bytes are written to main.customs.
apply_customs_update(w, customs) == [w |-> [w EXCEPT !.customs = Some(customs)], err |-> None]

\* Top-level merge of a patch into a stored document.
MergeDocument(old, patch) ==
    [k \in DOMAIN old \cup DOMAIN patch |-> IF k \in DOMAIN patch THEN patch[k] ELSE old[k]]

\* Stores the documents of a list one after the other; the document id is
\* taken from the identifier attribute.  With partial set, a stored document
\* is merged with the patch.
RECURSIVE StoreDocuments(_, _, _, _)
StoreDocuments(w, identifier, documents, partial) ==
    IF documents = <<>> THEN [w |-> w, err |-> None]
    ELSE LET doc == Head(documents)
         IN IF identifier \notin DOMAIN doc
            THEN [w |-> w, err |-> Some([kind |-> "MissingDocumentId"])]
            ELSE LET id == doc[identifier]
                     new == IF partial /\ id \in DOMAIN w.documents
                            THEN MergeDocument(w.documents[id], doc) ELSE doc
                     stored == [d \in DOMAIN w.documents \cup {id} |->
                                   IF d = id THEN new ELSE w.documents[d]]
                 IN StoreDocuments([w EXCEPT !.documents = stored], identifier,
                                   Tail(documents), partial)

\* The documents of a batch are stored, leave the index under their ids
\* when they were there, and enter it as they are stored now.
AddDocuments(w, documents, partial) ==
    IF w.schema = None THEN [w |-> w, err |-> Some(SchemaMissing)]
    ELSE LET identifier == Unwrap(w.schema).identifier
             stored == StoreDocuments(w, identifier, documents, partial)
             ids == {documents[i][identifier] : i \in 1..Len(documents)}
             replaced == ids \cap DOMAIN w.documents
             indexed == IndexDocuments(UnindexDocuments(stored.w, ids), ids)
         IN IF stored.err # None THEN stored
            ELSE [w |-> [indexed EXCEPT !.number_of_documents =
                            w.number_of_documents - Cardinality(replaced)
                            + Cardinality(ids)],
                  err |-> None]

\* apply_documents_addition
apply_documents_addition(w, documents) == AddDocuments(w, documents, FALSE)

\* apply_documents_partial_addition
apply_documents_partial_addition(w, documents) == AddDocuments(w, documents, TRUE)

\* apply_documents_deletion with the counter decremented once for every id
\* of the list, stored or not.
apply_documents_deletion_counts_every_id(w, deletion) ==
    LET ids == Range(deletion)
        w1 == UnindexDocuments(w, ids)
    IN [w |-> [w1 EXCEPT !.documents =
                   [d \in DOMAIN w.documents \ ids |-> w.documents[d]],
                         !.number_of_documents =
                             w.number_of_documents - Cardinality(ids)],
        err |-> None]

\* apply_documents_deletion: the documents leave the index, their
\* DocumentsFields rows are removed and the counter is decremented by the
\* number of documents that were removed.
apply_documents_deletion(w, deletion) ==
    LET ids == Range(deletion)
        w1 == UnindexDocuments(w, ids)
        deleted_documents == ids \cap DOMAIN w.documents
    IN [w |-> [w1 EXCEPT !.documents =
                   [d \in DOMAIN w.documents \ ids |-> w.documents[d]],
                         !.number_of_documents =
                             w.number_of_documents - Cardinality(deleted_documents)],
        err |-> None]

\* Index::document with a filter of no name at all for a missing filter.
document_none_is_empty_filter(w, attributes, document_id) ==
    IF w.schema = None THEN [val |-> None, err |-> Some(SchemaMissing)]
    ELSE IF document_id \notin DOMAIN w.documents THEN [val |-> None, err |-> None]
    ELSE [val |-> Some([name \in {} |-> w.documents[document_id][name]]), err |-> None]

\* Index::document reading the rows of the document without a schema.
document_reads_without_schema(w, attributes, document_id) ==
    IF document_id \notin DOMAIN w.documents
    THEN [val |-> None, err |-> IF w.schema = None THEN Some(SchemaMissing) ELSE None]
    ELSE LET stored == w.documents[document_id]
             fields == IF attributes = None \/ w.schema = None THEN None
                       ELSE Some(UNION {schema_id(Unwrap(w.schema), name) :
                                           name \in Unwrap(attributes)})
             names == IF fields = None THEN DOMAIN stored
                      ELSE DOMAIN stored \cap Unwrap(fields)
         IN [val |-> Some([name \in names |-> stored[name]]), err |-> None]

\* Index::document: SchemaMissing without a schema; the names of the filter
\* are mapped to the fields the schema knows; the deserializer reads the
\* DocumentsFields rows of the document id, all of them without a filter and
\* those of the fields of the filter otherwise, and gives None when the id
\* has no row.
document(w, attributes, document_id) ==
    IF w.schema = None THEN [val |-> None, err |-> Some(SchemaMissing)]
    ELSE LET schema == Unwrap(w.schema)
             fields == IF attributes = None THEN None
                       ELSE Some(UNION {schema_id(schema, name) : name \in Unwrap(attributes)})
         IN IF document_id \notin DOMAIN w.documents THEN [val |-> None, err |-> None]
            ELSE LET stored == w.documents[document_id]
                     names == IF fields = None THEN DOMAIN stored
                              ELSE DOMAIN stored \cap Unwrap(fields)
                 IN [val |-> Some([name \in names |-> stored[name]]), err |-> None]

----------------------------------------------------------------------------
\* The byte keys of the stores.  A key is the sequence of its bytes, and the
\* store keeps its rows in the lexicographic order of the keys.

\* The bytes of an integer, least significant byte first.
RECURSIVE le_bytes(_, _)
le_bytes(x, width) ==
    IF width = 0 THEN <<>> ELSE <<x % 256>> \o le_bytes(x \div 256, width - 1)

\* zerocopy::U64<BigEndian> and U16<BigEndian>: the bytes of an integer, most
\* significant byte first.
RECURSIVE be_bytes(_, _)
be_bytes(x, width) ==
    IF width = 0 THEN <<>> ELSE Append(be_bytes(x \div 256, width - 1), x % 256)

\* A 64-bit integer kept least significant byte first.
BEU64_little_endian(x) == le_bytes(x, 8)

\* BEU64::new
BEU64(x) == be_bytes(x, 8)

\* BEU16::new
BEU16(x) == be_bytes(x % 65536, 2)

\* DocumentFieldIndexedKey::new: #[repr(C)], docid then indexed_pos
DocumentFieldIndexedKey(docid, indexed_pos) == BEU64(docid) \o BEU16(indexed_pos)

\* DocumentFieldStoredKey::new: #[repr(C)], docid then field_id
DocumentFieldStoredKey(docid, field_id) == BEU64(docid) \o BEU16(field_id)

\* The order of the keys of a store: the bytes are compared one after the
\* other, and a key that is a prefix of another comes first.
LexLess(a, b) ==
    \/ \E i \in 1..Len(a) :
          /\ i <= Len(b)
          /\ a[i] < b[i]
          /\ \A j \in 1..(i - 1) : a[j] = b[j]
    \/ Len(a) < Len(b) /\ \A j \in 1..Len(a) : a[j] = b[j]

\* last() of a store: the row under the greatest key.
store_last(store) ==
    IF store = {} THEN None
    ELSE Some(CHOOSE row \in store :
                 \A other \in store : other.key = row.key \/ LexLess(other.key, row.key))

----------------------------------------------------------------------------
\* UpdateData::update_type
update_type(data) ==
    CASE data.kind = "ClearAll" -> [name |-> "ClearAll"]
      [] data.kind = "Customs" -> [name |-> "Customs"]
      [] data.kind = "DocumentsAddition" ->
             [name |-> "DocumentsAddition", number |-> Len(data.documents)]
      [] data.kind = "DocumentsPartial" ->
             [name |-> "DocumentsPartial", number |-> Len(data.documents)]
      [] data.kind = "DocumentsDeletion" ->
             [name |-> "DocumentsDeletion", number |-> Len(data.documents)]
      [] data.kind = "Settings" -> [name |-> "Settings", settings |-> data.settings]

\* The dispatch with DocumentsPartial handed to apply_documents_addition.
UpdateTaskDispatch_partial_as_addition(w, data) ==
    CASE data.kind = "ClearAll" ->
             [update_type |-> [name |-> "ClearAll"], result |-> apply_clear_all(w)]
      [] data.kind = "Customs" ->
             [update_type |-> [name |-> "Customs"],
              result |-> apply_customs_update(w, data.customs)]
      [] data.kind = "DocumentsAddition" ->
             [update_type |-> [name |-> "DocumentsAddition",
                               number |-> Len(data.documents)],
              result |-> apply_documents_addition(w, data.documents)]
      [] data.kind = "DocumentsPartial" ->
             [update_type |-> [name |-> "DocumentsPartial",
                               number |-> Len(data.documents)],
              result |-> apply_documents_addition(w, data.documents)]
      [] data.kind = "DocumentsDeletion" ->
             [update_type |-> [name |-> "DocumentsDeletion",
                               number |-> Len(data.documents)],
              result |-> apply_documents_deletion(w, data.documents)]
      [] data.kind = "Settings" ->
             [update_type |-> [name |-> "Settings", settings |-> data.settings],
              result |-> apply_settings_update(w, data.settings)]

\* The match of update_task: the update type and the result of the applier.
\* The result holds the writer as the applier left it.
UpdateTaskDispatch(w, data) ==
    CASE data.kind = "ClearAll" ->
             [update_type |-> [name |-> "ClearAll"], result |-> apply_clear_all(w)]
      [] data.kind = "Customs" ->
             [update_type |-> [name |-> "Customs"],
              result |-> apply_customs_update(w, data.customs)]
      [] data.kind = "DocumentsAddition" ->
             [update_type |-> [name |-> "DocumentsAddition",
                               number |-> Len(data.documents)],
              result |-> apply_documents_addition(w, data.documents)]
      [] data.kind = "DocumentsPartial" ->
             [update_type |-> [name |-> "DocumentsPartial",
                               number |-> Len(data.documents)],
              result |-> apply_documents_partial_addition(w, data.documents)]
      [] data.kind = "DocumentsDeletion" ->
             [update_type |-> [name |-> "DocumentsDeletion",
                               number |-> Len(data.documents)],
              result |-> apply_documents_deletion(w, data.documents)]
      [] data.kind = "Settings" ->
             [update_type |-> [name |-> "Settings", settings |-> data.settings],
              result |-> apply_settings_update(w, data.settings)]

\* The error of the result dropped.
ResultError_dropped(result) == None

\* result.map_err(|e| e.to_string()).err()
ResultError(result) ==
    IF result.err = None THEN None ELSE Some(ErrorToString(Unwrap(result.err)))

\* update_task with the number of the update type counted only when the
\* update was applied.
update_task_counts_applied(w, update_id, update, now) ==
    LET d == UpdateTaskDispatch(w, update.data)
        failed == d.result.err # None
    IN [w |-> d.result.w,
        status |-> [update_id |-> update_id,
                    update_type |-> IF failed /\ "number" \in DOMAIN d.update_type
                                    THEN [d.update_type EXCEPT !.number = 0]
                                    ELSE d.update_type,
                    error |-> ResultError(d.result),
                    enqueued_at |-> update.enqueued_at,
                    processed_at |-> now]]

\* update_task: always Ok(status); the writer is left as the applier left it.
update_task(w, update_id, update, now) ==
    LET d == UpdateTaskDispatch(w, update.data)
    IN [w |-> d.result.w,
        status |-> [update_id |-> update_id,
                    update_type |-> d.update_type,
                    error |-> ResultError(d.result),
                    enqueued_at |-> update.enqueued_at,
                    processed_at |-> now]]

----------------------------------------------------------------------------
\* Updates::last_update / UpdatesResults::last_update: the greatest key.
last_update(store) ==
    IF DOMAIN store = {} THEN None ELSE Some(SetMax(DOMAIN store))

\* cmp::max on Option<u64>: None is the least.
cmp_max(a, b) ==
    IF a = None THEN b
    ELSE IF b = None THEN a
    ELSE IF Unwrap(a) >= Unwrap(b) THEN a ELSE b

\* next_update_id without the increment of the greatest id.
next_update_id_no_increment(updates_store, updates_results_store) ==
    LET last == last_update(updates_store)
        last_update_results_id == last_update(updates_results_store)
        max_update_id == cmp_max(last, last_update_results_id)
    IN IF max_update_id = None THEN 0 ELSE Unwrap(max_update_id)

\* next_update_id
next_update_id(updates_store, updates_results_store) ==
    LET last == last_update(updates_store)
        last_update_results_id == last_update(updates_results_store)
        max_update_id == cmp_max(last, last_update_results_id)
    IN IF max_update_id = None THEN 0 ELSE Unwrap(max_update_id) + 1

\* Updates::put_update / UpdatesResults::put_update_result
put(store, id, value) ==
    [k \in DOMAIN store \cup {id} |-> IF k = id THEN value ELSE store[k]]

\* update_status looking into the Updates store first.
update_status_updates_first(updates_store, updates_results_store, update_id) ==
    IF update_id \in DOMAIN updates_store
    THEN LET update == updates_store[update_id]
         IN Some([status |-> "Enqueued",
                  content |-> [update_id |-> update_id,
                               update_type |-> update_type(update.data),
                               enqueued_at |-> update.enqueued_at]])
    ELSE IF update_id \in DOMAIN updates_results_store
    THEN LET result == updates_results_store[update_id]
         IN IF result.error # None
            THEN Some([status |-> "Failed", content |-> result])
            ELSE Some([status |-> "Processed", content |-> result])
    ELSE None

\* update_status without the lookup in the Updates store.
update_status_results_only(updates_store, updates_results_store, update_id) ==
    IF update_id \in DOMAIN updates_results_store
    THEN LET result == updates_results_store[update_id]
         IN IF result.error # None
            THEN Some([status |-> "Failed", content |-> result])
            ELSE Some([status |-> "Processed", content |-> result])
    ELSE None

\* update_status with the test of the error inverted.
update_status_inverted(updates_store, updates_results_store, update_id) ==
    IF update_id \in DOMAIN updates_results_store
    THEN LET result == updates_results_store[update_id]
         IN IF result.error = None
            THEN Some([status |-> "Failed", content |-> result])
            ELSE Some([status |-> "Processed", content |-> result])
    ELSE IF update_id \in DOMAIN updates_store
    THEN LET update == updates_store[update_id]
         IN Some([status |-> "Enqueued",
                  content |-> [update_id |-> update_id,
                               update_type |-> update_type(update.data),
                               enqueued_at |-> update.enqueued_at]])
    ELSE None

\* update_status
update_status(updates_store, updates_results_store, update_id) ==
    IF update_id \in DOMAIN updates_results_store
    THEN LET result == updates_results_store[update_id]
         IN IF result.error # None
            THEN Some([status |-> "Failed", content |-> result])
            ELSE Some([status |-> "Processed", content |-> result])
    ELSE IF update_id \in DOMAIN updates_store
    THEN LET update == updates_store[update_id]
         IN Some([status |-> "Enqueued",
                  content |-> [update_id |-> update_id,
                               update_type |-> update_type(update.data),
                               enqueued_at |-> update.enqueued_at]])
    ELSE None

\* The statuses of the ids lo..hi that have one, in order.
RECURSIVE StatusesOf(_, _, _, _)
StatusesOf(updates_store, updates_results_store, lo, hi) ==
    IF lo > hi THEN <<>>
    ELSE LET st == update_status(updates_store, updates_results_store, lo)
         IN (IF st = None THEN <<>> ELSE <<Unwrap(st)>>)
            \o StatusesOf(updates_store, updates_results_store, lo + 1, hi)

\* all_updates_status with the second loop starting at the last id of the
\* first one.
all_updates_status_overlap(updates_store, updates_results_store) ==
    LET last_result == last_update(updates_results_store)
        found == IF last_result = None THEN {}
                 ELSE {id \in 0..Unwrap(last_result) :
                         update_status(updates_store, updates_results_store, id) # None}
        first == IF last_result = None THEN <<>>
                 ELSE StatusesOf(updates_store, updates_results_store,
                                 0, Unwrap(last_result))
        last_update_result_id == IF found = {} THEN 0 ELSE SetMax(found)
        last == last_update(updates_store)
        second == IF last = None THEN <<>>
                  ELSE StatusesOf(updates_store, updates_results_store,
                                  last_update_result_id, Unwrap(last))
    IN first \o second

\* Index::all_updates_status
all_updates_status(updates_store, updates_results_store) ==
    LET last_result == last_update(updates_results_store)
        found == IF last_result = None THEN {}
                 ELSE {id \in 0..Unwrap(last_result) :
                         update_status(updates_store, updates_results_store, id) # None}
        first == IF last_result = None THEN <<>>
                 ELSE StatusesOf(updates_store, updates_results_store,
                                 0, Unwrap(last_result))
        last_update_result_id == IF found = {} THEN 0 ELSE SetMax(found)
        last == last_update(updates_store)
        second == IF last = None THEN <<>>
                  ELSE StatusesOf(updates_store, updates_results_store,
                                  last_update_result_id + 1, Unwrap(last))
    IN first \o second

\* current_update_id reading the UpdatesResults store.
current_update_id_of_results(updates_store) == last_update(UpdatesResults)

\* Index::current_update_id
current_update_id(updates_store) == last_update(updates_store)

----------------------------------------------------------------------------
\* The inputs the enqueuers draw from.
RankingRulesInput == <<[kind |-> "Typo"], [kind |-> "Dsc", field |-> "rank"]>>

SettingsInputs ==
    { [DefaultSettings EXCEPT !.identifier = UpdateOf("id")],
      [DefaultSettings EXCEPT !.ranking_rules = UpdateOf(RankingRulesInput),
                              !.identifier = UpdateOf("uid")],
      [DefaultSettings EXCEPT !.ranking_distinct = UpdateOf("rank")] }

CustomsInputs == {"c"}

DocumentsInputs == { <<[id |-> "1", title |-> "a"]>> }

DeletionInputs == { <<"1">> }

----------------------------------------------------------------------------
Init ==
    /\ Updates = EmptyFcn
    /\ UpdatesResults = EmptyFcn
    /\ main = EmptyMain
    /\ writer = NoThread
    /\ wUpdates = EmptyFcn
    /\ notifier = FALSE
    /\ proc = [pc |-> "waiting", id |-> 0]
    /\ clock = 0
    /\ readers = [t \in Threads |-> [pc |-> "idle"]]
    /\ rows = [documents_fields |-> {}, documents_fields_counts |-> {}, updates |-> {}]
    /\ indexes = EmptyFcn
    /\ highlighted = [highlights |-> <<>>]

\* db.update_write_txn(): one writer at a time on the update environment.
BeginUpdateWrite(t) ==
    /\ writer = NoThread
    /\ next_update_id(Updates, UpdatesResults) < MaxUpdates
    /\ writer' = t
    /\ wUpdates' = Updates
    /\ UNCHANGED <<Updates, UpdatesResults, main, notifier, proc, clock, readers, rows, indexes, highlighted>>

\* The Update::* constructors: the data and Utc::now().
NewUpdate(data) == [data |-> data, enqueued_at |-> clock]

\* push_settings_update, and the other push_* functions alike: the id comes
\* from next_update_id and the update is put under it.
push_update(updates_store, updates_results_store, update) ==
    LET last_update_id == next_update_id(updates_store, updates_results_store)
    IN [id |-> last_update_id, updates |-> put(updates_store, last_update_id, update)]

\* An Index::*_update call inside the update write transaction of t: the
\* NewUpdate event is sent, then the update is pushed.
Enqueue(t, data) ==
    /\ writer = t
    /\ next_update_id(wUpdates, UpdatesResults) < MaxUpdates
    /\ notifier' = TRUE
    /\ wUpdates' = push_update(wUpdates, UpdatesResults, NewUpdate(data)).updates
    /\ clock' = clock + 1
    /\ UNCHANGED <<Updates, UpdatesResults, main, writer, proc, readers, rows, indexes, highlighted>>

\* Index::settings_update
SettingsUpdate(t) ==
    \E settings \in SettingsInputs :
        Enqueue(t, [kind |-> "Settings", settings |-> settings])

\* Index::clear_all
ClearAll(t) == Enqueue(t, [kind |-> "ClearAll"])

\* Index::customs_update
CustomsUpdate(t) ==
    \E customs \in CustomsInputs : Enqueue(t, [kind |-> "Customs", customs |-> customs])

\* Index::documents_addition() ... finalize
DocumentsAddition(t) ==
    \E documents \in DocumentsInputs :
        Enqueue(t, [kind |-> "DocumentsAddition", documents |-> documents])

\* Index::documents_deletion() ... finalize
DocumentsDeletion(t) ==
    \E documents \in DeletionInputs :
        Enqueue(t, [kind |-> "DocumentsDeletion", documents |-> documents])

\* update_writer.commit(), which every handler reaches after its pushes.
CommitUpdateWrite(t) ==
    /\ writer = t
    /\ wUpdates # Updates
    /\ Updates' = wUpdates
    /\ writer' = NoThread
    /\ UNCHANGED <<UpdatesResults, main, wUpdates, notifier, proc, clock, readers, rows, indexes, highlighted>>

\* The processor receives a NewUpdate event.
ProcessorWake ==
    /\ proc.pc = "waiting"
    /\ notifier
    /\ notifier' = FALSE
    /\ proc' = [proc EXCEPT !.pc = "scanning"]
    /\ UNCHANGED <<Updates, UpdatesResults, main, writer, wUpdates, clock, readers, rows, indexes, highlighted>>

\* The processor taking the greatest id without a result.
ProcessorScan_greatest_first ==
    /\ proc.pc = "scanning"
    /\ LET pending == DOMAIN Updates \ DOMAIN UpdatesResults
       IN proc' = IF pending = {} THEN [proc EXCEPT !.pc = "waiting"]
                  ELSE [pc |-> "applying", id |-> SetMax(pending)]
    /\ UNCHANGED <<Updates, UpdatesResults, main, writer, wUpdates, notifier, clock, readers, rows, indexes, highlighted>>

\* The processor taking a failed update again.
ProcessorScan_retry_failed ==
    /\ proc.pc = "scanning"
    /\ LET pending == {id \in DOMAIN Updates :
                          id \in DOMAIN UpdatesResults => UpdatesResults[id].error # None}
       IN proc' = IF pending = {} THEN [proc EXCEPT !.pc = "waiting"]
                  ELSE [pc |-> "applying", id |-> SetMin(pending)]
    /\ UNCHANGED <<Updates, UpdatesResults, main, writer, wUpdates, notifier, clock, readers, rows, indexes, highlighted>>

\* The processor begins an update read transaction, which sees the Updates
\* store as it was committed last and waits for no writer, and looks for the
\* smallest id without a result; without one it waits for the next event.
ProcessorScan ==
    /\ proc.pc = "scanning"
    /\ LET pending == DOMAIN Updates \ DOMAIN UpdatesResults
       IN proc' = IF pending = {} THEN [proc EXCEPT !.pc = "waiting"]
                  ELSE [pc |-> "applying", id |-> SetMin(pending)]
    /\ UNCHANGED <<Updates, UpdatesResults, main, writer, wUpdates, notifier, clock, readers, rows, indexes, highlighted>>

\* The processor applies the update in a main write transaction, commits it
\* when the status holds no error and aborts it otherwise, and records the
\* status in UpdatesResults.
ProcessorApply ==
    /\ proc.pc = "applying"
    /\ writer = NoThread
    /\ LET r == update_task(main, proc.id, Updates[proc.id], clock)
       IN /\ main' = IF r.status.error = None THEN r.w ELSE main
          /\ UpdatesResults' = put(UpdatesResults, proc.id, r.status)
    /\ proc' = [proc EXCEPT !.pc = "scanning"]
    /\ clock' = clock + 1
    /\ UNCHANGED <<Updates, writer, wUpdates, notifier, readers, rows, indexes, highlighted>>

Processor == ProcessorWake \/ ProcessorScan \/ ProcessorApply

Next ==
    \/ \E t \in Threads : BeginUpdateWrite(t)
    \/ \E t \in Threads : SettingsUpdate(t)
    \/ \E t \in Threads : ClearAll(t)
    \/ \E t \in Threads : CustomsUpdate(t)
    \/ \E t \in Threads : DocumentsAddition(t)
    \/ \E t \in Threads : DocumentsDeletion(t)
    \/ \E t \in Threads : CommitUpdateWrite(t)
    \/ ProcessorWake
    \/ ProcessorScan
    \/ ProcessorApply

Spec == Init /\ [][Next]_vars

\* The steps of a request that holds the update write transaction.
Writing(t) ==
    \/ SettingsUpdate(t)
    \/ ClearAll(t)
    \/ CustomsUpdate(t)
    \/ DocumentsAddition(t)
    \/ DocumentsDeletion(t)
    \/ CommitUpdateWrite(t)

\* The queue fed with settings updates and ClearAll only, with the
\* scheduling the threads have: the processor thread keeps running and a
\* request that holds the write transaction runs to its commit.
LiveNext ==
    \/ \E t \in Threads : BeginUpdateWrite(t)
    \/ \E t \in Threads : SettingsUpdate(t)
    \/ \E t \in Threads : ClearAll(t)
    \/ \E t \in Threads : CommitUpdateWrite(t)
    \/ ProcessorWake
    \/ ProcessorScan
    \/ ProcessorApply

LiveSpec ==
    /\ Init
    /\ [][LiveNext]_vars
    /\ WF_vars(Processor)
    /\ WF_vars(\E t \in Threads : Writing(t))

----------------------------------------------------------------------------
\* The appliers on their own: update_task is applied to one update after the
\* other, each in a main write transaction that is committed when the status
\* holds no error and aborted otherwise.  proc keeps the update applied last
\* and its status, and whether it repeats the update applied before it with
\* success; proc.id counts the updates applied.

SynonymsInputs ==
    { [word \in {"wolf"} |-> <<"dog", "cat", "dog">>],
      [word \in {"wolf", "logan"} |-> IF word = "wolf" THEN <<"dog">> ELSE <<"wolf">>] }

\* Settings updates that touch one field.
FieldSettingsInputs ==
    {[DefaultSettings EXCEPT !.identifier = v] : v \in {UpdateOf("id"), UpdateOf("uid"), Clear}}
    \cup {[DefaultSettings EXCEPT !.ranking_rules = v] :
             v \in {UpdateOf(RankingRulesInput), Clear}}
    \cup {[DefaultSettings EXCEPT !.ranking_distinct = v] : v \in {UpdateOf("rank"), Clear}}
    \cup {[DefaultSettings EXCEPT !.index_new_fields = v] : v \in {UpdateOf(FALSE), Clear}}
    \cup {[DefaultSettings EXCEPT !.searchable_attributes = v] :
             v \in {UpdateOf(<<"title">>), UpdateOf(<<"title", "desc">>),
                    UpdateOf(<<"desc", "title">>), Clear}}
    \cup {[DefaultSettings EXCEPT !.displayed_attributes = v] :
             v \in {UpdateOf(<<"title">>), Clear}}
    \cup {[DefaultSettings EXCEPT !.stop_words = v] :
             v \in {UpdateOf({"the"}), UpdateOf({"a"}), Clear}}
    \cup {[DefaultSettings EXCEPT !.synonyms = v] :
             v \in {UpdateOf(m) : m \in SynonymsInputs} \cup {Clear}}

\* The full settings write of the tests, and the one that follows it there:
\* fewer searchable attributes in another order, no rankingDistinct, an
\* empty stopWords list.
FirstWrite ==
    [ranking_rules |-> UpdateOf(RankingRulesInput),
     ranking_distinct |-> UpdateOf("rank"),
     index_new_fields |-> UpdateOf(FALSE),
     searchable_attributes |-> UpdateOf(<<"uid", "rank", "title">>),
     displayed_attributes |-> UpdateOf(<<"title", "rank">>),
     identifier |-> UpdateOf("uid"),
     stop_words |-> UpdateOf({"the", "a"}),
     synonyms |-> UpdateOf([word \in {"wolf"} |-> <<"dog", "cat", "dog">>])]

SecondWrite ==
    [ranking_rules |-> UpdateOf(<<[kind |-> "Typo"]>>),
     ranking_distinct |-> Clear,
     index_new_fields |-> UpdateOf(FALSE),
     searchable_attributes |-> UpdateOf(<<"title", "uid">>),
     displayed_attributes |-> UpdateOf(<<"title">>),
     identifier |-> UpdateOf("uid"),
     stop_words |-> UpdateOf({}),
     synonyms |-> UpdateOf([word \in {"wolf", "logan"} |->
                              IF word = "wolf" THEN <<"dog">> ELSE <<"wolf">>])]

\* DELETE of the settings: every field Clear.
AllClear ==
    [ranking_rules |-> Clear, ranking_distinct |-> Clear, index_new_fields |-> Clear,
     searchable_attributes |-> Clear, displayed_attributes |-> Clear,
     identifier |-> Clear, stop_words |-> Clear, synonyms |-> Clear]

AppliedSettingsInputs ==
    FieldSettingsInputs
    \cup {FirstWrite, SecondWrite, AllClear,
          [DefaultSettings EXCEPT !.identifier = UpdateOf("id"),
                                  !.searchable_attributes = UpdateOf(<<"title">>)],
          [DefaultSettings EXCEPT !.identifier = UpdateOf("id"),
                                  !.searchable_attributes = UpdateOf(<<"title">>),
                                  !.stop_words = UpdateOf({"the"})]}

AppliedDocumentsInputs ==
    { <<[id |-> "1", title |-> "the wolf"]>>,
      <<[id |-> "2", title |-> "a wolf"], [id |-> "1", title |-> "wolf"]>> }

\* Patches of a partial addition: one gives a stored document another title,
\* one gives it a field more.
AppliedPartialInputs ==
    { <<[id |-> "1", title |-> "a wolf"]>>,
      <<[id |-> "1", desc |-> "the"]>> }

AppliedData ==
    {[kind |-> "Settings", settings |-> settings] : settings \in AppliedSettingsInputs}
    \cup {[kind |-> "DocumentsAddition", documents |-> d] : d \in AppliedDocumentsInputs}
    \cup {[kind |-> "DocumentsPartial", documents |-> d] : d \in AppliedPartialInputs}
    \cup {[kind |-> "DocumentsDeletion", documents |-> d] : d \in DeletionInputs}
    \cup {[kind |-> "ClearAll"]}

ApplyUpdate(data) ==
    /\ proc.id < MaxApplied
    /\ LET update == NewUpdate(data)
           r == update_task(main, proc.id, update, clock)
       IN /\ main' = IF r.status.error = None THEN r.w ELSE main
          /\ proc' = [pc |-> "applied", id |-> proc.id + 1,
                      update |-> update, status |-> r.status,
                      repeated |-> /\ proc.pc = "applied"
                                   /\ proc.update.data = data
                                   /\ proc.status.error = None]
    /\ UNCHANGED <<Updates, UpdatesResults, writer, wUpdates, notifier, clock, readers, rows, indexes, highlighted>>

ApplierNext == \E data \in AppliedData : ApplyUpdate(data)

ApplierSpec == Init /\ [][ApplierNext]_vars

\* The kinds of update whose type counts the submitted list.
CountedKinds == {"DocumentsAddition", "DocumentsPartial", "DocumentsDeletion"}

\* C39: the status update_task returns for an update carries the update id
\* it was called with, the enqueued_at of the update and the update type
\* UpdateData::update_type gives for the update's data, whether the update
\* was applied or failed; for an addition, a partial addition and a
\* deletion the number of the type is the length of the submitted list.
C39_StatusCarriesIdTimeAndType ==
    [][\A data \in AppliedData :
          ApplyUpdate(data) =>
              /\ proc'.status.update_id = proc.id
              /\ proc'.status.enqueued_at = proc'.update.enqueued_at
              /\ proc'.update.data = data
              /\ proc'.status.update_type = update_type(data)
              /\ data.kind \in CountedKinds =>
                    proc'.status.update_type.number = Len(data.documents)]_vars

\* An addition, a partial addition or a deletion of a list that is not
\* empty failed, under an update id other than the first.
C39_Witness ==
    /\ proc.pc = "applied"
    /\ proc.id > 1
    /\ proc.status.error # None
    /\ proc.update.data.kind \in CountedKinds
    /\ Len(proc.update.data.documents) > 0

----------------------------------------------------------------------------
\* Two settings updates in a row.  An index is prepared by a few updates,
\* then two settings updates are processed one after the other, each one
\* accepted and each one setting must_reindex; proc keeps the first of them
\* and the main environment as it was before it.

\* must_reindex as apply_settings_update leaves it for a writer w: set by
\* the ranking rules, the searchable attributes, an identifier given, and
\* a stop word removed.
must_reindex(w, settings) ==
    \/ settings.ranking_rules.state \in {"Update", "Clear"}
    \/ settings.searchable_attributes.state \in {"Update", "Clear"}
    \/ settings.identifier.state = "Update"
    \/ /\ settings.stop_words.state \in {"Update", "Clear"}
       /\ apply_stop_words_update(w, IF settings.stop_words.state = "Update"
                                     THEN settings.stop_words.v ELSE {}).must_reindex

PrepareIndex(data) ==
    /\ proc.pc \in {"waiting", "applied"}
    /\ proc.id + 2 < MaxApplied
    /\ ApplyUpdate(data)

FirstSettings(settings) ==
    /\ proc.pc \in {"waiting", "applied"}
    /\ proc.id + 1 < MaxApplied
    /\ must_reindex(main, settings)
    /\ LET update == NewUpdate([kind |-> "Settings", settings |-> settings])
           r == update_task(main, proc.id, update, clock)
       IN /\ r.status.error = None
          /\ main' = r.w
          /\ proc' = [pc |-> "first", id |-> proc.id + 1, update |-> update,
                      status |-> r.status, before |-> main]
    /\ UNCHANGED <<Updates, UpdatesResults, writer, wUpdates, notifier, clock, readers, rows, indexes, highlighted>>

SecondSettings(settings) ==
    /\ proc.pc = "first"
    /\ must_reindex(main, settings)
    /\ LET update == NewUpdate([kind |-> "Settings", settings |-> settings])
           r == update_task(main, proc.id, update, clock)
       IN /\ r.status.error = None
          /\ main' = r.w
          /\ proc' = [pc |-> "second", id |-> proc.id + 1, update |-> update,
                      status |-> r.status, before |-> proc.before,
                      first |-> proc.update.data.settings]
    /\ UNCHANGED <<Updates, UpdatesResults, writer, wUpdates, notifier, clock, readers, rows, indexes, highlighted>>

ComposeNext ==
    \/ \E data \in AppliedData : PrepareIndex(data)
    \/ \E settings \in AppliedSettingsInputs : FirstSettings(settings)
    \/ \E settings \in AppliedSettingsInputs : SecondSettings(settings)

ComposeSpec == Init /\ [][ComposeNext]_vars

----------------------------------------------------------------------------
\* Readers next to the main write transaction.  The processor opens a main
\* write transaction, applies the update to it step by step, and commits it
\* when no step returned an error; a request thread opens a main read
\* transaction, which is a snapshot of the committed main environment, and
\* reads the stores through it one after the other.  proc keeps the writer,
\* the step reached and the main environments committed so far.

\* The steps of apply_settings_update in their order.
SettingsStep(k, c, settings) ==
    CASE k = 1 -> SettingsSchema(c.w, settings)
      [] k = 2 -> SettingsRankingRules(c, settings)
      [] k = 3 -> SettingsRankingDistinct(c, settings)
      [] k = 4 -> SettingsIndexNewFields(c, settings)
      [] k = 5 -> SettingsSearchableAttributes(c, settings)
      [] k = 6 -> SettingsDisplayedAttributes(c, settings)
      [] k = 7 -> SettingsIdentifier(c, settings)
      [] k = 8 -> SettingsStopWords(c, settings)
      [] k = 9 -> SettingsSynonyms(c, settings)
      [] k = 10 -> SettingsReindex(c, settings)
LastStep == 10

\* The main environments committed so far, the one of Init first.
Committed == IF "commits" \in DOMAIN proc THEN proc.commits ELSE <<EmptyMain>>

InterleavedData ==
    { [kind |-> "Settings",
       settings |-> [DefaultSettings EXCEPT !.identifier = UpdateOf("id"),
                                            !.searchable_attributes = UpdateOf(<<"title">>),
                                            !.stop_words = UpdateOf({"the"})]],
      [kind |-> "Settings",
       settings |-> [DefaultSettings EXCEPT !.searchable_attributes =
                                               UpdateOf(<<"desc", "title">>)]],
      [kind |-> "Settings", settings |-> AllClear],
      [kind |-> "DocumentsAddition", documents |-> <<[id |-> "1", title |-> "the wolf"]>>],
      [kind |-> "DocumentsDeletion", documents |-> <<"1">>],
      [kind |-> "ClearAll"] }

\* The stores a request reads through its read transaction.
ReaderKeys == {"schema", "documents_fields_counts", "documents"}

BeginMainWrite(data) ==
    /\ proc.pc = "waiting"
    /\ proc.id < MaxWrites
    /\ proc' = [pc |-> "writing", id |-> proc.id, data |-> data, step |-> 0,
                c |-> [w |-> main, schema |-> with_identifier(""),
                       must_reindex |-> FALSE, err |-> None],
                commits |-> Committed]
    /\ UNCHANGED <<Updates, UpdatesResults, main, writer, wUpdates, notifier, clock,
                   readers, rows, indexes, highlighted>>

\* One step of the applier on the writer; the appliers other than the
\* settings applier are one step.
WriteStep ==
    /\ proc.pc = "writing"
    /\ proc.step < LastStep
    /\ proc' = IF proc.data.kind = "Settings"
               THEN [proc EXCEPT !.c = SettingsStep(proc.step + 1, proc.c,
                                                    proc.data.settings),
                                 !.step = proc.step + 1]
               ELSE LET r == UpdateTaskDispatch(proc.c.w, proc.data).result
                    IN [proc EXCEPT !.c = [proc.c EXCEPT !.w = r.w, !.err = r.err],
                                    !.step = LastStep]
    /\ UNCHANGED <<Updates, UpdatesResults, main, writer, wUpdates, notifier, clock,
                   readers, rows, indexes, highlighted>>

\* The transaction is committed when the applier returned no error and
\* aborted otherwise.
EndMainWrite ==
    /\ proc.pc = "writing"
    /\ proc.step = LastStep
    /\ main' = IF proc.c.err = None THEN proc.c.w ELSE main
    /\ proc' = [pc |-> "waiting", id |-> proc.id + 1,
                commits |-> IF proc.c.err = None THEN Append(proc.commits, proc.c.w)
                            ELSE proc.commits]
    /\ UNCHANGED <<Updates, UpdatesResults, writer, wUpdates, notifier, clock, readers, rows, indexes, highlighted>>

\* db.main_read_txn()
BeginRead(t) ==
    /\ readers[t].pc = "idle"
    /\ readers' = [readers EXCEPT ![t] = [pc |-> "reading", snapshot |-> main,
                                          seen |-> EmptyFcn]]
    /\ UNCHANGED <<Updates, UpdatesResults, main, writer, wUpdates, notifier, proc, clock, rows, indexes, highlighted>>

\* A read of a store that goes to the committed main environment of the
\* moment and not through the read transaction.
ReadKey_without_transaction(t, key) ==
    /\ readers[t].pc = "reading"
    /\ key \notin DOMAIN readers[t].seen
    /\ readers' = [readers EXCEPT ![t].seen =
                       [k \in DOMAIN readers[t].seen \cup {key} |->
                           IF k = key THEN main[key] ELSE readers[t].seen[k]]]
    /\ UNCHANGED <<Updates, UpdatesResults, main, writer, wUpdates, notifier, proc, clock, rows, indexes, highlighted>>

\* A read of a store through the read transaction.
ReadKey(t, key) ==
    /\ readers[t].pc = "reading"
    /\ key \notin DOMAIN readers[t].seen
    /\ readers' = [readers EXCEPT ![t].seen =
                       [k \in DOMAIN readers[t].seen \cup {key} |->
                           IF k = key THEN readers[t].snapshot[key]
                           ELSE readers[t].seen[k]]]
    /\ UNCHANGED <<Updates, UpdatesResults, main, writer, wUpdates, notifier, proc, clock, rows, indexes, highlighted>>

\* The read transaction is dropped when the request is answered.
EndRead(t) ==
    /\ readers[t].pc = "reading"
    /\ readers' = [readers EXCEPT ![t] = [pc |-> "idle"]]
    /\ UNCHANGED <<Updates, UpdatesResults, main, writer, wUpdates, notifier, proc, clock, rows, indexes, highlighted>>

InterleavedNext ==
    \/ \E data \in InterleavedData : BeginMainWrite(data)
    \/ WriteStep
    \/ EndMainWrite
    \/ \E t \in Threads : BeginRead(t)
    \/ \E t \in Threads, key \in ReaderKeys : ReadKey(t, key)
    \/ \E t \in Threads : EndRead(t)

InterleavedSpec == Init /\ [][InterleavedNext]_vars

----------------------------------------------------------------------------
\* The documents addition routes.  A document of a request body is an
\* IndexMap: its keys and values in the order of the body.

\* The characters of the keys the requests of the model use.
Chars(key) ==
    CASE key = "ViD" -> <<"V", "i", "D">>
      [] key = "title" -> <<"t", "i", "t", "l", "e">>
      [] key = "dir" -> <<"d", "i", "r">>
      [] key = "uid" -> <<"u", "i", "d">>

\* char::to_lowercase on these characters
to_lowercase_char(c) ==
    CASE c = "D" -> "d"
      [] c = "V" -> "v"
      [] OTHER -> c

\* str::to_lowercase
to_lowercase(chars) == [i \in 1..Len(chars) |-> to_lowercase_char(chars[i])]

\* str::contains
contains(chars, pattern) ==
    \E i \in 0..(Len(chars) - Len(pattern)) :
        \A j \in 1..Len(pattern) : chars[i + j] = pattern[j]

\* find_identifier taking the first key of the document, whatever it is.
find_identifier_first_key(doc) ==
    IF doc = <<>> THEN None ELSE Some(doc[1].key)

\* find_identifier: the first key, in the order of the document, whose
\* lowercase form contains "id".
find_identifier(doc) ==
    LET found == {i \in 1..Len(doc) :
                     contains(to_lowercase(Chars(doc[i].key)), <<"i", "d">>)}
    IN IF found = {} THEN None ELSE Some(doc[SetMin(found)].key)

\* DocumentsAddition::update_document: the document as the update holds it.
update_document(doc) ==
    [key \in {doc[i].key : i \in 1..Len(doc)} |->
        LET last == SetMax({i \in 1..Len(doc) : doc[i].key = key})
        IN doc[last].value]

\* ResponseError::bad_request
bad_request(message) == [status |-> 400, message |-> message]

RouteDocuments ==
    { <<[key |-> "title", value |-> "a"], [key |-> "dir", value |-> "b"]>>,
      <<[key |-> "title", value |-> "a"], [key |-> "ViD", value |-> "1"]>> }

\* The bodies of the requests: no document, one document, and a document
\* without identifier followed by one that has it.
RouteBodies ==
    {<<>>}
    \cup {<<doc>> : doc \in RouteDocuments}
    \cup {<< <<[key |-> "title", value |-> "a"], [key |-> "dir", value |-> "b"]>>,
             <<[key |-> "title", value |-> "a"], [key |-> "ViD", value |-> "1"]>> >>}

\* The identifier query parameter.
RouteQueries == {None, Some("title")}

\* update_multiple_documents: the schema is read through a main read
\* transaction and an update write transaction is opened; without a schema
\* the identifier comes from the query or from the first document, the
\* request is answered 400 when neither gives it (the write transaction is
\* dropped), and a settings update that sets the identifier is enqueued
\* otherwise; then the addition is enqueued, the transaction is committed
\* and the request is answered 202 with the update id of the addition.
update_multiple_documents(t, data, query, is_partial) ==
    /\ writer = NoThread
    /\ readers[t].pc = "idle"
    /\ LET current_schema == main.schema
           first == IF data = <<>> THEN None ELSE find_identifier(Head(data))
           id == IF query # None THEN query ELSE first
           settings == [DefaultSettings EXCEPT !.identifier = UpdateOf(Unwrap(id))]
           with_settings ==
               IF current_schema = None
               THEN push_update(Updates, UpdatesResults,
                                NewUpdate([kind |-> "Settings", settings |-> settings])).updates
               ELSE Updates
           documents == [i \in 1..Len(data) |-> update_document(data[i])]
           addition == [kind |-> IF is_partial THEN "DocumentsPartial"
                                 ELSE "DocumentsAddition",
                        documents |-> documents]
           pushed == push_update(with_settings, UpdatesResults, NewUpdate(addition))
           request == [data |-> data, query |-> query, is_partial |-> is_partial]
       IN IF current_schema = None /\ id = None
          THEN /\ readers' = [readers EXCEPT ![t] =
                                 [pc |-> "idle", request |-> request,
                                  response |-> bad_request("Could not infer a schema")]]
               /\ UNCHANGED <<Updates, notifier, clock, rows, indexes, highlighted>>
          ELSE /\ pushed.id < MaxUpdates
               /\ Updates' = pushed.updates
               /\ notifier' = TRUE
               /\ clock' = clock + 1
               /\ readers' = [readers EXCEPT ![t] =
                                 [pc |-> "idle", request |-> request,
                                  response |-> [status |-> 202, update_id |-> pushed.id]]]
    /\ UNCHANGED <<UpdatesResults, main, writer, wUpdates, proc, rows, indexes, highlighted>>

\* add_or_replace_multiple_documents
add_or_replace_multiple_documents(t) ==
    \E data \in RouteBodies, query \in RouteQueries :
        update_multiple_documents(t, data, query, FALSE)

\* add_or_update_multiple_documents
add_or_update_multiple_documents(t) ==
    \E data \in RouteBodies, query \in RouteQueries :
        update_multiple_documents(t, data, query, TRUE)

\* The handlers enqueue under the update write transaction, one at a time:
\* one request thread serves the requests one after the other.
RouteThreads == {"t1"}

RouteNext ==
    \/ \E t \in RouteThreads : add_or_replace_multiple_documents(t)
    \/ \E t \in RouteThreads : add_or_update_multiple_documents(t)
    \/ ProcessorWake
    \/ ProcessorScan
    \/ ProcessorApply

RouteSpec == Init /\ [][RouteNext]_vars

----------------------------------------------------------------------------
\* The highlights of a raw document.  Words are sequences of characters.

Min2(a, b) == IF a <= b THEN a ELSE b

\* The Damerau-Levenshtein distance of two words: insertions, deletions,
\* substitutions and transpositions of neighbours.
RECURSIVE damerau_levenshtein(_, _)
damerau_levenshtein(a, b) ==
    IF a = <<>> THEN Len(b)
    ELSE IF b = <<>> THEN Len(a)
    ELSE LET n == Len(a)
             m == Len(b)
             fa == SubSeq(a, 1, n - 1)
             fb == SubSeq(b, 1, m - 1)
             edit == Min2(Min2(damerau_levenshtein(fa, b) + 1,
                               damerau_levenshtein(a, fb) + 1),
                          damerau_levenshtein(fa, fb) + (IF a[n] = b[m] THEN 0 ELSE 1))
         IN IF n > 1 /\ m > 1 /\ a[n] = b[m - 1] /\ a[n - 1] = b[m]
            THEN Min2(edit, damerau_levenshtein(SubSeq(a, 1, n - 2),
                                                SubSeq(b, 1, m - 2)) + 1)
            ELSE edit

\* prefix_damerau_levenshtein(source, target): the distance of the source
\* to the prefix of the target that is closest to it, and the length of
\* that prefix; of two prefixes as close the shortest or the longest one.
prefix_damerau_levenshtein(source, target, tie) ==
    LET distance(p) == damerau_levenshtein(source, SubSeq(target, 1, p))
        least == SetMin({distance(p) : p \in 0..Len(target)})
        closest == {p \in 0..Len(target) : distance(p) = least}
    IN <<least, IF tie = "shortest" THEN SetMin(closest) ELSE SetMax(closest)>>

\* ReorderedAttrs::reverse
reverse(searchable_attrs, attribute) ==
    IF attribute \in DOMAIN searchable_attrs THEN Some(searchable_attrs[attribute])
    ELSE None

\* The marker of a posting that gives no highlight.
NoHighlight == [attribute |-> None]

\* The body of the loop over the postings of a bare match: the covered
\* area, the attribute through the reordered attributes and the schema,
\* and the highlight, or none when the schema does not know the position.
HighlightOf(query, input, di, searchable_attrs, schema, tie) ==
    LET covered_area == IF Len(query) > Len(input) THEN Len(input)
                        ELSE prefix_damerau_levenshtein(query, input, tie)[2]
        reordered == IF searchable_attrs = None THEN None
                     ELSE reverse(Unwrap(searchable_attrs), di.attribute)
        attribute == IF reordered = None THEN di.attribute ELSE Unwrap(reordered)
        field_id == indexed_pos_to_field_id(schema, attribute)
    IN IF field_id = None THEN NoHighlight
       ELSE [attribute |-> field_id, char_index |-> di.char_index,
             char_length |-> covered_area % 65536]

\* highlights_from_raw_document: the highlights of the postings of every
\* bare match, in their order.
RECURSIVE highlights_from_raw_document(_, _, _, _)
highlights_from_raw_document(bare_matches, searchable_attrs, schema, tie) ==
    IF bare_matches = <<>> THEN <<>>
    ELSE LET bm == Head(bare_matches)
             of_postings == [i \in 1..Len(bm.postings_list) |->
                                HighlightOf(bm.query, bm.input, bm.postings_list[i],
                                            searchable_attrs, schema, tie)]
         IN SelectSeq(of_postings, LAMBDA h : h # NoHighlight)
            \o highlights_from_raw_document(Tail(bare_matches), searchable_attrs,
                                             schema, tie)

\* Query words and words of the index; a query may be longer than the word
\* it matched.
HighlightQueries ==
    {<<"a", "b">>, <<"a", "b", "c">>, <<"x", "x", "a", "b">>}
HighlightInputs == {<<"a", "b", "c">>, <<"b", "a", "c", "d">>}

\* Posting lists: the third position is one no schema below knows.
HighlightPostings ==
    {<<[attribute |-> 1, char_index |-> 0]>>,
     <<[attribute |-> 2, char_index |-> 4], [attribute |-> 3, char_index |-> 0]>>}

BareMatches ==
    [query : HighlightQueries, input : HighlightInputs, postings_list : HighlightPostings]

\* No reordering, and the two searchable attributes exchanged.
HighlightSearchableAttrs == {None, Some(<<2, 1>>)}

HighlightSchema ==
    [identifier |-> "id", ranked |-> {}, indexed |-> <<"title", "desc">>,
     displayed |-> {}, index_new_fields |-> TRUE]

\* The lists of bare matches of a raw document.
BareMatchLists == UNION {[1..n -> BareMatches] : n \in 1..MaxBareMatches}

\* Document::from_raw: the highlights of a raw document are computed, once
\* for the document.
Highlight ==
    \E bare_matches \in BareMatchLists,
       searchable_attrs \in HighlightSearchableAttrs, tie \in {"shortest", "longest"} :
        /\ DOMAIN highlighted = {"highlights"}
        /\ highlighted' =
              [bare_matches |-> bare_matches,
               searchable_attrs |-> searchable_attrs,
               tie |-> tie,
               highlights |-> highlights_from_raw_document(bare_matches,
                                                           searchable_attrs,
                                                           HighlightSchema, tie)]
        /\ UNCHANGED <<Updates, UpdatesResults, main, writer, wUpdates, notifier, proc,
                       clock, readers, rows, indexes>>

HighlightNext == Highlight

HighlightSpec == Init /\ [][HighlightNext]_vars

\* The field a posting is highlighted in: its position through the
\* reordered attributes, when there are any, and the schema.
HighlightField(di, searchable_attrs, schema) ==
    LET reordered == IF searchable_attrs = None THEN None
                     ELSE reverse(Unwrap(searchable_attrs), di.attribute)
    IN indexed_pos_to_field_id(schema, IF reordered = None THEN di.attribute
                                       ELSE Unwrap(reordered))

----------------------------------------------------------------------------
\* The names of the databases of an index.

main_name(name) == "store-" \o name

postings_lists_name(name) == "store-" \o name \o "-postings-lists"

documents_fields_name(name) == "store-" \o name \o "-documents-fields"

documents_fields_counts_name(name) == "store-" \o name \o "-documents-fields-counts"

synonyms_name(name) == "store-" \o name \o "-synonyms"

docs_words_name(name) == "store-" \o name \o "-docs-words"

updates_name(name) == "store-" \o name \o "-updates"

updates_results_name(name) == "store-" \o name \o "-updates-results"

\* The names given to the indexes.
IndexNames ==
    {"movies", "movies-synonyms", "movies-documents", "movies-documents-fields",
     "books", "books-docs", "books2", "a", "a-b"}

\* store::create: the stores of the index are created (or opened, when a
\* database of that name exists) in env under six names and in update_env
\* under two.
create(name) ==
    /\ name \notin DOMAIN indexes
    /\ Cardinality(DOMAIN indexes) < MaxIndexes
    /\ indexes' = [n \in DOMAIN indexes \cup {name} |->
                      IF n = name
                      THEN [main |-> main_name(name),
                            postings_lists |-> postings_lists_name(name),
                            documents_fields |-> documents_fields_name(name),
                            documents_fields_counts |-> documents_fields_counts_name(name),
                            synonyms |-> synonyms_name(name),
                            docs_words |-> docs_words_name(name),
                            updates |-> updates_name(name),
                            updates_results |-> updates_results_name(name)]
                      ELSE indexes[n]]
    /\ UNCHANGED <<Updates, UpdatesResults, main, writer, wUpdates, notifier, proc,
                   clock, readers, rows, highlighted>>

CreateNext == \E name \in IndexNames : create(name)

CreateSpec == Init /\ [][CreateNext]_vars

----------------------------------------------------------------------------
\* store::clear beside the update queue.  It is given a main writer and an
\* update writer, so no other update write transaction is open, and the
\* processor is not between reading an update and recording its result.

\* store::clear leaving UpdatesResults as it is.
store_clear_keeps_updates_results ==
    /\ writer = NoThread
    /\ proc.pc # "applying"
    /\ clock <= MaxClearClock
    /\ main' = EmptyMain
    /\ Updates' = EmptyFcn
    /\ UNCHANGED <<UpdatesResults, writer, wUpdates, notifier, proc, clock, readers, rows, indexes, highlighted>>

\* store::clear: main, postings_lists, documents_fields,
\* documents_fields_counts, synonyms, docs_words are cleared through the
\* main writer, updates and updates_results through the update writer.
store_clear ==
    /\ writer = NoThread
    /\ proc.pc # "applying"
    /\ clock <= MaxClearClock
    /\ main' = EmptyMain
    /\ Updates' = EmptyFcn
    /\ UpdatesResults' = EmptyFcn
    /\ UNCHANGED <<writer, wUpdates, notifier, proc, clock, readers, rows, indexes, highlighted>>

ClearNext ==
    \/ \E t \in Threads : BeginUpdateWrite(t)
    \/ \E t \in Threads : SettingsUpdate(t)
    \/ \E t \in Threads : DocumentsAddition(t)
    \/ \E t \in Threads : CommitUpdateWrite(t)
    \/ ProcessorWake
    \/ ProcessorScan
    \/ ProcessorApply
    \/ store_clear

ClearSpec == Init /\ [][ClearNext]_vars

----------------------------------------------------------------------------
\* update_multiple_documents step by step, for requests served by several
\* threads at once: a thread reads the schema through the main read
\* transaction it opened first, and holds the update write transaction from
\* update_write_txn to the commit, or to the early return that drops it.

RequestBodies ==
    { << <<[key |-> "title", value |-> "a"], [key |-> "ViD", value |-> "1"]>> >>,
      << <<[key |-> "title", value |-> "a"], [key |-> "dir", value |-> "b"]>> >> }

\* The body of the partial additions: the identifier of its document is uid.
RequestPatches ==
    { << <<[key |-> "uid", value |-> "1"], [key |-> "title", value |-> "b"]>> >> }

\* The requests in flight.
InFlight == {t \in Threads : readers[t].pc # "idle"}

\* ctx.body_json, ctx.query and db.main_read_txn(): the request is taken and
\* the main read transaction opened; the schema is read through it later.
RequestRead(t, data, query, is_partial) ==
    /\ readers[t].pc = "idle"
    /\ next_update_id(Updates, UpdatesResults) + 2 * Cardinality(InFlight) + 2
          <= 2 * MaxRequests
    /\ readers' = [readers EXCEPT ![t] =
                      [pc |-> "read",
                       request |-> [data |-> data, query |-> query,
                                    is_partial |-> is_partial],
                       current_schema |-> main.schema]]
    /\ UNCHANGED <<Updates, UpdatesResults, main, writer, wUpdates, notifier, proc,
                   clock, rows, indexes, highlighted>>

\* add_or_replace_multiple_documents, up to the main read transaction
RequestReplace(t) ==
    \E data \in RequestBodies, query \in RouteQueries : RequestRead(t, data, query, FALSE)

\* add_or_update_multiple_documents, up to the main read transaction
RequestUpdate(t) ==
    \E data \in RequestPatches : RequestRead(t, data, None, TRUE)

\* db.update_write_txn(): waits for the writer of the update environment.
RequestWrite(t) ==
    /\ readers[t].pc = "read"
    /\ writer = NoThread
    /\ writer' = t
    /\ wUpdates' = Updates
    /\ readers' = [readers EXCEPT ![t].pc = "schema"]
    /\ UNCHANGED <<Updates, UpdatesResults, main, notifier, proc, clock, rows, indexes, highlighted>>

\* The schema step writing the settings update past the transaction.
RequestSchema_writes_through(t) ==
    /\ readers[t].pc = "schema"
    /\ writer = t
    /\ LET request == readers[t].request
           first == IF request.data = <<>> THEN None
                    ELSE find_identifier(Head(request.data))
           id == IF request.query # None THEN request.query ELSE first
           settings == [DefaultSettings EXCEPT !.identifier = UpdateOf(Unwrap(id))]
           pushed == push_update(wUpdates, UpdatesResults,
                                 NewUpdate([kind |-> "Settings", settings |-> settings]))
       IN IF readers[t].current_schema # None
          THEN /\ readers' = [readers EXCEPT ![t].pc = "addition"]
               /\ UNCHANGED <<Updates, writer, wUpdates, notifier, clock, indexes, highlighted>>
          ELSE IF id = None
          THEN /\ readers' = [readers EXCEPT ![t] =
                                 [pc |-> "idle", current_schema |-> None,
                                  response |-> bad_request("Could not infer a schema")]]
               /\ writer' = NoThread
               /\ UNCHANGED <<Updates, wUpdates, notifier, clock, indexes, highlighted>>
          ELSE /\ wUpdates' = pushed.updates
               /\ Updates' = put(Updates, pushed.id, pushed.updates[pushed.id])
               /\ notifier' = TRUE
               /\ clock' = clock + 1
               /\ readers' = [readers EXCEPT ![t].pc = "addition"]
               /\ UNCHANGED writer
    /\ UNCHANGED <<UpdatesResults, main, proc, rows, indexes, highlighted>>

\* index.main.schema(&reader) and the block of the missing schema: the
\* identifier comes from the query or from the first document, the request
\* returns 400 when neither gives it (the write transaction is dropped),
\* and Index::settings_update sends NewUpdate and pushes the settings
\* update that sets the identifier.
RequestSchema(t) ==
    /\ readers[t].pc = "schema"
    /\ writer = t
    /\ LET request == readers[t].request
           first == IF request.data = <<>> THEN None
                    ELSE find_identifier(Head(request.data))
           id == IF request.query # None THEN request.query ELSE first
           settings == [DefaultSettings EXCEPT !.identifier = UpdateOf(Unwrap(id))]
           pushed == push_update(wUpdates, UpdatesResults,
                                 NewUpdate([kind |-> "Settings", settings |-> settings]))
       IN IF readers[t].current_schema # None
          THEN /\ readers' = [readers EXCEPT ![t].pc = "addition"]
               /\ UNCHANGED <<writer, wUpdates, notifier, clock, indexes, highlighted>>
          ELSE IF id = None
          THEN /\ readers' = [readers EXCEPT ![t] =
                                 [pc |-> "idle", current_schema |-> None,
                                  response |-> bad_request("Could not infer a schema")]]
               /\ writer' = NoThread
               /\ UNCHANGED <<wUpdates, notifier, clock, indexes, highlighted>>
          ELSE /\ wUpdates' = pushed.updates
               /\ notifier' = TRUE
               /\ clock' = clock + 1
               /\ readers' = [readers EXCEPT ![t].pc = "addition"]
               /\ UNCHANGED writer
    /\ UNCHANGED <<Updates, UpdatesResults, main, proc, rows, indexes, highlighted>>

\* The documents are handed to the addition, which finalize pushes under
\* the next id of the transaction.
RequestFinalize(t) ==
    /\ readers[t].pc = "addition"
    /\ writer = t
    /\ LET request == readers[t].request
           documents == [i \in 1..Len(request.data) |-> update_document(request.data[i])]
           addition == [kind |-> IF request.is_partial THEN "DocumentsPartial"
                                 ELSE "DocumentsAddition",
                        documents |-> documents]
           pushed == push_update(wUpdates, UpdatesResults, NewUpdate(addition))
       IN /\ wUpdates' = pushed.updates
          /\ readers' = [readers EXCEPT ![t] =
                            [pc |-> "commit", request |-> request,
                             current_schema |-> readers[t].current_schema,
                             update_id |-> pushed.id]]
    /\ notifier' = TRUE
    /\ clock' = clock + 1
    /\ UNCHANGED <<Updates, UpdatesResults, main, writer, proc, rows, indexes, highlighted>>

\* update_writer.commit() and the 202 response with the id of the addition.
RequestCommit(t) ==
    /\ readers[t].pc = "commit"
    /\ writer = t
    /\ Updates' = wUpdates
    /\ writer' = NoThread
    /\ readers' = [readers EXCEPT ![t] =
                      [pc |-> "idle", current_schema |-> readers[t].current_schema,
                       response |-> [status |-> 202,
                                     update_id |-> readers[t].update_id]]]
    /\ UNCHANGED <<UpdatesResults, main, wUpdates, notifier, proc, clock, rows, indexes, highlighted>>

RequestNext ==
    \/ \E t \in Threads : RequestReplace(t)
    \/ \E t \in Threads : RequestUpdate(t)
    \/ \E t \in Threads : RequestWrite(t)
    \/ \E t \in Threads : RequestSchema(t)
    \/ \E t \in Threads : RequestFinalize(t)
    \/ \E t \in Threads : RequestCommit(t)
    \/ ProcessorWake
    \/ ProcessorScan
    \/ ProcessorApply

RequestSpec == Init /\ [][RequestNext]_vars

----------------------------------------------------------------------------
\* Rows put under byte keys: a field of a document in DocumentsFields, the
\* count of an indexed position in DocumentsFieldsCounts, an update in
\* Updates.  A row keeps the numbers its key was made of.

\* Document ids are 64-bit hashes, field ids, indexed positions are 16-bit,
\* update ids are 64-bit: values on both sides of the byte boundaries.
DocumentIds == {0, 1, 255, 256, 65536, 2147483647}
FieldIds == {0, 1, 255, 256, 65535}
UpdateIdInputs == {0, 1, 2, 255, 256, 257, 65536, 16777216}

RowsPut ==
    Cardinality(rows.documents_fields) + Cardinality(rows.documents_fields_counts)
    + Cardinality(rows.updates)

\* DocumentsFields::put_document_field
put_document_field(docid, field_id) ==
    /\ RowsPut < MaxKeys
    /\ rows' = [rows EXCEPT !.documents_fields =
                    @ \cup {[key |-> DocumentFieldStoredKey(docid, field_id),
                             docid |-> docid, field_id |-> field_id]}]
    /\ UNCHANGED <<Updates, UpdatesResults, main, writer, wUpdates, notifier, proc,
                   clock, readers, indexes, highlighted>>

\* DocumentsFieldsCounts::put_document_field_count
put_document_field_count(docid, indexed_pos) ==
    /\ RowsPut < MaxKeys
    /\ rows' = [rows EXCEPT !.documents_fields_counts =
                    @ \cup {[key |-> DocumentFieldIndexedKey(docid, indexed_pos),
                             docid |-> docid, indexed_pos |-> indexed_pos]}]
    /\ UNCHANGED <<Updates, UpdatesResults, main, writer, wUpdates, notifier, proc,
                   clock, readers, indexes, highlighted>>

\* Updates::put_update
put_update(update_id) ==
    /\ RowsPut < MaxKeys
    /\ rows' = [rows EXCEPT !.updates =
                    @ \cup {[key |-> BEU64(update_id), update_id |-> update_id]}]
    /\ UNCHANGED <<Updates, UpdatesResults, main, writer, wUpdates, notifier, proc,
                   clock, readers, indexes, highlighted>>

KeyNext ==
    \/ \E docid \in DocumentIds, field_id \in FieldIds : put_document_field(docid, field_id)
    \/ \E docid \in DocumentIds, indexed_pos \in FieldIds :
          put_document_field_count(docid, indexed_pos)
    \/ \E update_id \in UpdateIdInputs : put_update(update_id)

KeySpec == Init /\ [][KeyNext]_vars

----------------------------------------------------------------------------
UpdateIds == 0..(MaxUpdates - 1)

Status(id) == update_status(Updates, UpdatesResults, id)
AllStatuses == all_updates_status(Updates, UpdatesResults)
StatusIds(l) == {l[i].content.update_id : i \in 1..Len(l)}
HasFailed(id) == id \in DOMAIN UpdatesResults /\ UpdatesResults[id].error # None
HasProcessed(id) == id \in DOMAIN UpdatesResults /\ UpdatesResults[id].error = None

\* C1: every update id up to the last allocated one is either enqueued (in
\* Updates, without result, reported Enqueued) or has a result record
\* (reported Processed or Failed), never both and never neither.
C1_EnqueuedOrProcessed ==
    LET known == DOMAIN Updates \cup DOMAIN UpdatesResults
    IN known # {} =>
         \A i \in 0..SetMax(known) :
            LET enqueued == /\ i \in DOMAIN Updates
                            /\ i \notin DOMAIN UpdatesResults
                            /\ Status(i) # None
                            /\ Unwrap(Status(i)).status = "Enqueued"
                processed == /\ i \in DOMAIN UpdatesResults
                             /\ Status(i) # None
                             /\ Unwrap(Status(i)).status \in {"Processed", "Failed"}
            IN enqueued # processed

C1_Witness ==
    \E i, j, k \in UpdateIds :
        /\ HasProcessed(i) /\ HasFailed(j)
        /\ k \in DOMAIN Updates /\ k \notin DOMAIN UpdatesResults

\* C2: all_updates_status reports every enqueued update, whatever number of
\* them has been processed: as many records as Updates has keys, with
\* exactly these ids.
C2_AllUpdatesReported ==
    /\ Len(AllStatuses) = Cardinality(DOMAIN Updates)
    /\ StatusIds(AllStatuses) = DOMAIN Updates

\* C3: all_updates_status reports no update id twice.
C3_NoIdTwice ==
    LET ids == [i \in 1..Len(AllStatuses) |-> AllStatuses[i].content.update_id]
    IN \A i, j \in DOMAIN ids : i # j => ids[i] # ids[j]

C3_Witness ==
    /\ \E i \in DOMAIN Updates \cap DOMAIN UpdatesResults :
          \E j \in DOMAIN Updates : j > i /\ j \notin DOMAIN UpdatesResults

\* C4: a push puts its update under max(greatest key of Updates, greatest
\* key of UpdatesResults) + 1, or 0 with both stores empty: a key greater
\* than every key there is, and no stored update is overwritten.
C4_PushAllocatesFreshId ==
    [][wUpdates' # wUpdates =>
         LET old == DOMAIN wUpdates \cup DOMAIN UpdatesResults
             new == DOMAIN wUpdates' \ DOMAIN wUpdates
         IN /\ Cardinality(new) = 1
            /\ \A k \in new : /\ k = IF old = {} THEN 0 ELSE SetMax(old) + 1
                              /\ \A j \in old : j < k
            /\ \A j \in DOMAIN wUpdates :
                  j \in DOMAIN wUpdates' /\ wUpdates'[j] = wUpdates[j]]_vars

C4_Witness ==
    /\ writer # NoThread
    /\ UpdatesResults # EmptyFcn
    /\ \E k \in DOMAIN wUpdates : k >= 2 /\ k \notin DOMAIN Updates

\* C5: updates are processed in the order they were enqueued in: of two
\* updates the one enqueued first gets its result record first.
C5_ProcessedInEnqueueOrder ==
    \A i, j \in DOMAIN Updates :
        (Updates[i].enqueued_at < Updates[j].enqueued_at /\ j \in DOMAIN UpdatesResults)
        => /\ i < j
           /\ i \in DOMAIN UpdatesResults
           /\ UpdatesResults[i].processed_at < UpdatesResults[j].processed_at

\* Two updates waited in the queue together and both have their result.
C5_Witness ==
    \E i, j \in DOMAIN UpdatesResults :
        i < j /\ Updates[j].enqueued_at < UpdatesResults[i].processed_at

C7_ResultRecordsOutcome ==
    [][/\ \A id \in DOMAIN UpdatesResults' \ DOMAIN UpdatesResults :
             LET result == UpdateTaskDispatch(main, Updates[id].data).result
                 record == UpdatesResults'[id]
                 after == Status(id)'
             IN /\ result.err = None =>
                      record.error = None /\ Unwrap(after).status = "Processed"
                /\ result.err # None =>
                      /\ record.error = Some(ErrorToString(Unwrap(result.err)))
                      /\ Unwrap(after).status = "Failed"
       /\ \A id \in DOMAIN UpdatesResults' :
             (Unwrap(Status(id)').status = "Failed") <=> (UpdatesResults'[id].error # None)
      ]_vars

C7_Witness ==
    \E i, j \in DOMAIN UpdatesResults :
        /\ UpdatesResults[i].error = None
        /\ UpdatesResults[j].error =
              Some("unsupported operation; Cannot update the identifier of a schema")
        /\ Unwrap(Status(j)).status = "Failed"

\* C8: an update whose applier returns an error leaves the main environment
\* as it was before the update started, also when the applier wrote before
\* it failed.
C8_FailedUpdateLeavesNoState ==
    [][\A id \in DOMAIN UpdatesResults' \ DOMAIN UpdatesResults :
          UpdateTaskDispatch(main, Updates[id].data).result.err # None
          => main' = main]_vars

\* A settings update that had put its ranking rules before its identifier
\* was refused is recorded as Failed, and no ranking rules are stored.
C8_Witness ==
    \E id \in DOMAIN UpdatesResults :
        /\ HasFailed(id)
        /\ Updates[id].data.kind = "Settings"
        /\ Updates[id].data.settings.ranking_rules.state = "Update"
        /\ UpdatesResults[id].error =
              Some("unsupported operation; Cannot update the identifier of a schema")
        /\ main.schema # None
        /\ main.ranking_rules = None

\* C9: every update of the Updates store gets a result record in the end,
\* those behind a failed update too, and a result record once written is
\* never written again (an update is applied once).
C9_EveryUpdateProcessedOnce ==
    /\ \A id \in UpdateIds :
          (id \in DOMAIN Updates) ~> (id \in DOMAIN UpdatesResults)
    /\ [][\A id \in DOMAIN UpdatesResults :
             id \in DOMAIN UpdatesResults' /\ UpdatesResults'[id] = UpdatesResults[id]]_vars

C9_Witness ==
    \E i, j \in DOMAIN UpdatesResults : i < j /\ HasFailed(i) /\ HasProcessed(j)

\* C10: processing leaves the record of an update in the Updates store, so
\* that current_update_id is the greatest id ever enqueued, also once every
\* update has a result, and None only as long as nothing was enqueued.
C10_CurrentUpdateId ==
    [][/\ \A id \in DOMAIN Updates :
             id \in DOMAIN Updates' /\ Updates'[id] = Updates[id]
       /\ LET known == DOMAIN Updates' \cup DOMAIN UpdatesResults'
          IN current_update_id(Updates)' =
                IF known = {} THEN None ELSE Some(SetMax(known))]_vars

\* Three updates were enqueued and all three have been processed.
C10_Witness ==
    /\ DOMAIN UpdatesResults = {0, 1, 2}
    /\ current_update_id(Updates) = Some(2)

----------------------------------------------------------------------------
\* The update applied last, its settings when it is a settings update, and
\* whether it failed.
LastData == proc.update.data
LastIsSettings == proc.pc = "applied" /\ LastData.kind = "Settings"
LastSettings == LastData.settings
LastFailed == proc.status.error # None

\* C11: a settings update applied to an index without schema fails with
\* MissingIdentifier when its identifier is Nothing or Clear, whatever its
\* other fields, and has written nothing by then; with identifier Update(v)
\* it succeeds and a schema with identifier v is stored.
C11_MissingIdentifier ==
    [][(LastIsSettings' /\ main.schema = None) =>
          LET settings == LastSettings'
              r == apply_settings_update(main, settings)
          IN IF settings.identifier.state # "Update"
             THEN /\ r.err = Some(MissingIdentifier)
                  /\ r.w = main
                  /\ proc'.status.error = Some("schema cannot be build without identifier")
                  /\ main' = main
             ELSE /\ r.err = None
                  /\ proc'.status.error = None
                  /\ main'.schema # None
                  /\ Unwrap(main'.schema).identifier = settings.identifier.v]_vars

\* Every field of the update was Clear, the update failed for its missing
\* identifier and the main environment is still empty.
C11_Witness ==
    /\ LastIsSettings
    /\ LastSettings.identifier.state = "Clear"
    /\ LastSettings.ranking_rules.state = "Clear"
    /\ LastSettings.synonyms.state = "Clear"
    /\ proc.status.error = Some("schema cannot be build without identifier")
    /\ main = EmptyMain

CannotUpdateSchemaIdentifierMessage ==
    ErrorToString(Unsupported("CannotUpdateSchemaIdentifier"))

\* C12: once a schema exists its identifier cannot change: a settings
\* update with identifier Update(v), v not the identifier of the schema,
\* fails and the stored schema keeps its identifier; one that gives the
\* current identifier again is not refused for it, succeeds when it sets
\* nothing else, and the identifier stays.
C12_IdentifierCannotChange ==
    [][(LastIsSettings' /\ main.schema # None
            /\ LastSettings'.identifier.state = "Update") =>
          LET settings == LastSettings'
              current == Unwrap(main.schema).identifier
          IN /\ main'.schema # None
             /\ Unwrap(main'.schema).identifier = current
             /\ settings.identifier.v # current =>
                    /\ proc'.status.error # None
                    /\ main'.schema = main.schema
             /\ settings.identifier.v = current =>
                    /\ proc'.status.error # Some(CannotUpdateSchemaIdentifierMessage)
                    /\ settings = [DefaultSettings EXCEPT !.identifier = settings.identifier]
                           => proc'.status.error = None]_vars

\* The index has a schema with identifier "id" and the update applied last
\* asked for "uid" and was refused.
C12_Witness ==
    /\ LastIsSettings
    /\ LastSettings.identifier = UpdateOf("uid")
    /\ proc.status.error = Some(CannotUpdateSchemaIdentifierMessage)
    /\ main.schema # None
    /\ Unwrap(main.schema).identifier = "id"

\* The list a settings update gives for the searchable attributes (Clear
\* gives the empty list), and what it does to the indexed attributes.
SearchableList(settings) ==
    IF settings.searchable_attributes.state = "Update"
    THEN settings.searchable_attributes.v ELSE <<>>
Reorders(old, new) ==
    \E i, j \in 1..Len(old) : \E k, l \in 1..Len(new) :
        i < j /\ k < l /\ old[i] = new[l] /\ old[j] = new[k]
Removes(old, new) == \E i \in 1..Len(old) : old[i] \notin Range(new)
SchemaAttributeMessages ==
    {ErrorToString(Unsupported(op)) :
        op \in {"CannotReorderSchemaAttribute", "CannotRemoveSchemaAttribute",
                "CanOnlyIntroduceNewSchemaAttributesAtEnd"}}

\* C13: with a schema, a settings update whose searchable attributes
\* reorder or remove indexed attributes fails with one of the three
\* UnsupportedOperation errors and leaves the indexed attributes as they
\* were; only a list that appends to the indexed attributes succeeds.
C13_ReorderOrRemoveFails ==
    [][(LastIsSettings' /\ main.schema # None
            /\ LastSettings'.searchable_attributes.state # "Nothing") =>
          LET old == Unwrap(main.schema).indexed
              new == SearchableList(LastSettings')
          IN /\ (Reorders(old, new) \/ Removes(old, new)) =>
                    /\ proc'.status.error # None
                    /\ Unwrap(proc'.status.error) \in SchemaAttributeMessages
                    /\ main'.schema = main.schema
             /\ proc'.status.error = None => IsPrefix(old, new)]_vars

\* The settings as they are read back from the main environment, null
\* being None: the schema gives identifier, searchable and displayed
\* attributes and index_new_fields; an empty list, set or map reads as null.
NullIfEmpty(v, empty) == IF v = empty THEN None ELSE Some(v)
StoredSettings(w) ==
    [ranking_rules |-> w.ranking_rules,
     ranking_distinct |-> w.ranking_distinct,
     index_new_fields |->
         IF w.schema = None THEN None ELSE Some(Unwrap(w.schema).index_new_fields),
     searchable_attributes |->
         IF w.schema = None THEN None ELSE NullIfEmpty(Unwrap(w.schema).indexed, <<>>),
     displayed_attributes |->
         IF w.schema = None THEN None ELSE NullIfEmpty(Unwrap(w.schema).displayed, {}),
     identifier |-> IF w.schema = None THEN None ELSE Some(Unwrap(w.schema).identifier),
     stop_words |-> NullIfEmpty(FstOrDefault(w.stop_words), {}),
     synonyms |-> NullIfEmpty(w.synonyms, EmptyFcn)]

\* What a settings update without a Nothing field asks the settings to be.
WrittenValue(field, empty) == IF field.state = "Update" THEN NullIfEmpty(field.v, empty) ELSE None
WrittenSettings(settings) ==
    [ranking_rules |-> WrittenValue(settings.ranking_rules, <<>>),
     ranking_distinct |-> WrittenValue(settings.ranking_distinct, ""),
     index_new_fields |-> IF settings.index_new_fields.state = "Update"
                          THEN Some(settings.index_new_fields.v) ELSE Some(TRUE),
     searchable_attributes |-> WrittenValue(settings.searchable_attributes, <<>>),
     displayed_attributes |->
         IF settings.displayed_attributes.state = "Update"
         THEN NullIfEmpty(Range(settings.displayed_attributes.v), {}) ELSE None,
     identifier |-> WrittenValue(settings.identifier, ""),
     stop_words |-> WrittenValue(settings.stop_words, {}),
     synonyms |->
         IF settings.synonyms.state = "Update"
         THEN NullIfEmpty([word \in DOMAIN settings.synonyms.v |->
                              Range(settings.synonyms.v[word])], EmptyFcn)
         ELSE None]
IsFullWrite(settings) ==
    /\ \A f \in DOMAIN settings : settings[f].state # "Nothing"
    /\ settings.identifier.state = "Update"

\* C14: a full settings write overwrites the settings of the one before it:
\* once a settings update and then a full write (with the identifier of the
\* schema) have been processed, every setting reads back as the second
\* gave it, a searchable attributes list that is shorter and in another
\* order and a changed synonyms map included, and as null where the second
\* cleared it or gave an empty list.
C14_FullWriteOverwrites ==
    [][(/\ LastIsSettings /\ ~LastFailed
        /\ LastIsSettings' /\ IsFullWrite(LastSettings')
        /\ main.schema # None
        /\ LastSettings'.identifier.v = Unwrap(main.schema).identifier)
       => /\ proc'.status.error = None
          /\ StoredSettings(main') = WrittenSettings(LastSettings')]_vars

\* The second write of the tests was processed as the second update.
C14_Witness ==
    /\ LastIsSettings /\ ~LastFailed
    /\ LastSettings = SecondWrite
    /\ proc.id = 2
    /\ StoredSettings(main).searchable_attributes = Some(<<"title", "uid">>)
    /\ StoredSettings(main).ranking_distinct = None
    /\ StoredSettings(main).stop_words = None
    /\ StoredSettings(main).synonyms = Some([word \in {"wolf", "logan"} |->
                                               IF word = "wolf" THEN {"dog"} ELSE {"wolf"}])

\* C15: a settings update with all eight fields Clear, applied to an index
\* that has a schema, succeeds; after it the schema is absent, and so are
\* ranking rules and ranking distinct, the stop words and the synonyms are
\* empty and every setting reads back as null.  The schema is deleted last:
\* the reindex before it has run with the cleared schema, and has left
\* every stored document without posting.
C15_ClearAllSettings ==
    [][(LastIsSettings' /\ LastSettings' = AllClear /\ main.schema # None)
       => /\ proc'.status.error = None
          /\ main'.schema = None
          /\ main'.ranking_rules = None
          /\ main'.ranking_distinct = None
          /\ FstOrDefault(main'.stop_words) = {}
          /\ main'.synonyms = EmptyFcn
          /\ FstOrDefault(main'.synonyms_fst) = {}
          /\ \A f \in DOMAIN StoredSettings(main') : StoredSettings(main')[f] = None
          /\ main'.documents = main.documents
          /\ main'.postings_lists = EmptyFcn
          /\ DOMAIN main'.docs_words = DOMAIN main.documents]_vars

\* The settings of an index that holds a document were cleared.
C15_Witness ==
    /\ LastIsSettings /\ ~LastFailed
    /\ LastSettings = AllClear
    /\ main.schema = None
    /\ main.documents # EmptyFcn
    /\ main.postings_lists = EmptyFcn

\* The settings the schema holds.
SchemaSettings ==
    {"index_new_fields", "searchable_attributes", "displayed_attributes", "identifier"}

\* C16 as stated, for an index that has a schema: a settings update that
\* succeeds leaves every setting whose field is Nothing as it was stored
\* before, resets the ones whose field is Clear (index_new_fields to true)
\* and sets the ones whose field is Update(v) to v.
C16_NothingMeansUntouched ==
    [][(LastIsSettings' /\ proc'.status.error = None /\ main.schema # None) =>
          \A f \in DOMAIN DefaultSettings :
             StoredSettings(main')[f] =
                IF LastSettings'[f].state = "Nothing"
                THEN StoredSettings(main)[f]
                ELSE WrittenSettings(LastSettings')[f]]_vars

\* C16 amended: so it is for ranking_rules, ranking_distinct, stop_words
\* and synonyms, and for the settings the schema holds as long as the
\* identifier of the update is not Clear and the index had a schema.  An
\* update whose identifier is Clear deletes the schema, and the four
\* settings it holds read as null after it whatever their fields were; an
\* update that creates the schema leaves the settings of the schema whose
\* fields are Nothing at the defaults of a new schema (index_new_fields
\* true, no searchable and no displayed attributes).
C16_NothingMeansUntouchedButSchema ==
    [][(LastIsSettings' /\ proc'.status.error = None) =>
          \A f \in DOMAIN DefaultSettings :
             LET before ==
                     IF f \in SchemaSettings /\ main.schema = None
                     THEN StoredSettings([EmptyMain EXCEPT
                              !.schema = Some(with_identifier(LastSettings'.identifier.v))])[f]
                     ELSE StoredSettings(main)[f]
             IN StoredSettings(main')[f] =
                   IF f \in SchemaSettings /\ LastSettings'.identifier.state = "Clear"
                   THEN None
                   ELSE IF LastSettings'[f].state = "Nothing" THEN before
                   ELSE WrittenSettings(LastSettings')[f]]_vars

\* An update of ranking_distinct alone was processed on an index that has
\* searchable attributes and stop words, and they are still there.
C16_Witness ==
    /\ LastIsSettings /\ ~LastFailed
    /\ LastSettings = [DefaultSettings EXCEPT !.ranking_distinct = UpdateOf("rank")]
    /\ StoredSettings(main).ranking_distinct = Some("rank")
    /\ StoredSettings(main).searchable_attributes = Some(<<"title">>)
    /\ StoredSettings(main).stop_words = Some({"the"})

\* The stop words a settings update asks for (Clear asks for none).
StopWordsOf(settings) ==
    IF settings.stop_words.state = "Update" THEN settings.stop_words.v ELSE {}

\* C17: after a settings update that sets the stop words has been applied,
\* no word it added to the stop words has a posting list or is in the words
\* FST; when the update sets nothing but the stop words, every other word
\* of the words FST is still there with the posting list it had.
C17_StopWordsLeaveIndex ==
    [][(/\ LastIsSettings' /\ proc'.status.error = None
        /\ LastSettings'.stop_words.state # "Nothing")
       => LET added == StopWordsOf(LastSettings') \ FstOrDefault(main.stop_words)
              others == FstOrDefault(main.words_fst) \ added
          IN /\ \A word \in added :
                   /\ word \notin DOMAIN main'.postings_lists
                   /\ word \notin FstOrDefault(main'.words_fst)
             /\ LastSettings' = [DefaultSettings EXCEPT !.stop_words = LastSettings'.stop_words]
                   => \A word \in others :
                         /\ word \in FstOrDefault(main'.words_fst)
                         /\ word \in DOMAIN main.postings_lists
                         /\ word \in DOMAIN main'.postings_lists
                         /\ main'.postings_lists[word] = main.postings_lists[word]]_vars

\* "the" became a stop word after the document "the wolf" had been indexed
\* (DocsWords still names it): it has no posting list, "wolf" has its own.
C17_Witness ==
    /\ LastIsSettings /\ ~LastFailed
    /\ LastSettings = [DefaultSettings EXCEPT !.stop_words = UpdateOf({"the"})]
    /\ "1" \in DOMAIN main.docs_words
    /\ "the" \in main.docs_words["1"]
    /\ "the" \notin DOMAIN main.postings_lists
    /\ "the" \notin FstOrDefault(main.words_fst)
    /\ "wolf" \in DOMAIN main.postings_lists
    /\ "wolf" \in FstOrDefault(main.words_fst)

\* What makes a settings update applied to the writer w reindex, as C18
\* lists it.
RequiresReindex(settings, w) ==
    \/ settings.ranking_rules.state \in {"Update", "Clear"}
    \/ settings.searchable_attributes.state \in {"Update", "Clear"}
    \/ /\ settings.stop_words.state # "Nothing"
       /\ FstOrDefault(w.stop_words) \ StopWordsOf(settings) # {}

\* The index of w is what tokenizing every stored document under the
\* given schema and the stop words of w gives.
IsReindexed(w, schema) ==
    [reindex_all_documents([w EXCEPT !.schema = Some(schema)]) EXCEPT !.schema = w.schema] = w

\* C18: a settings update that succeeds and whose ranking_rules or
\* searchable_attributes are Update or Clear, or whose stop_words remove a
\* stored stop word, leaves the index reindexed in the same step: every
\* stored document is there, tokenized under the schema and the stop words
\* the update leaves (under the schema it deletes at last, when its
\* identifier is Clear).
C18_ReindexAfterChanges ==
    [][(/\ LastIsSettings' /\ proc'.status.error = None
        /\ RequiresReindex(LastSettings', main))
       => /\ main'.documents = main.documents
          /\ DOMAIN main'.docs_words = DOMAIN main.documents
          /\ IF main'.schema # None
             THEN IsReindexed(main', Unwrap(main'.schema))
             ELSE \E indexed \in {Unwrap(main.schema).indexed,
                                  SearchableList(LastSettings')} :
                     IsReindexed(main', [Unwrap(main.schema) EXCEPT !.indexed = indexed])]_vars

\* The stop words were cleared on an index whose document "the wolf" had
\* been indexed with "the" as a stop word: "the" has its posting list.
C18_Witness ==
    /\ LastIsSettings /\ ~LastFailed
    /\ LastSettings = [DefaultSettings EXCEPT !.stop_words = Clear]
    /\ main.stop_words = Some({})
    /\ "1" \in DOMAIN main.documents
    /\ "the" \in DOMAIN main.postings_lists
    /\ "the" \in main.docs_words["1"]

\* The synonyms map a settings update asks for (Clear asks for the empty one).
SynonymsOf(settings) ==
    IF settings.synonyms.state = "Update" THEN settings.synonyms.v ELSE EmptyFcn

\* C19: after a settings update that sets the synonyms to the map M has
\* been applied, the keys of the Synonyms store and the members of the
\* synonyms FST are the keys of M, every key has the set of its alternatives
\* in M (each one once), and no entry of the map before is left.
C19_SynonymsRewritten ==
    [][(/\ LastIsSettings' /\ proc'.status.error = None
        /\ LastSettings'.synonyms.state # "Nothing")
       => LET M == SynonymsOf(LastSettings')
          IN /\ DOMAIN main'.synonyms = DOMAIN M
             /\ main'.synonyms_fst = Some(DOMAIN M)
             /\ \A word \in DOMAIN M :
                   /\ \A i \in 1..Len(M[word]) : M[word][i] \in main'.synonyms[word]
                   /\ \A alternative \in main'.synonyms[word] :
                         \E i \in 1..Len(M[word]) : M[word][i] = alternative
             /\ \A word \in DOMAIN main.synonyms \ DOMAIN M :
                   word \notin DOMAIN main'.synonyms]_vars

\* The map wolf -> dog, cat, dog was written: the store holds wolf with
\* two alternatives and nothing else.
C19_Witness ==
    /\ LastIsSettings /\ ~LastFailed
    /\ LastSettings.synonyms = UpdateOf([word \in {"wolf"} |-> <<"dog", "cat", "dog">>])
    /\ DOMAIN main.synonyms = {"wolf"}
    /\ Cardinality(main.synonyms["wolf"]) = 2
    /\ main.synonyms_fst = Some({"wolf"})

\* C20: after a ClearAll update has been applied, every sub-database of
\* the main environment is empty, Main, PostingsLists, DocumentsFields,
\* DocumentsFieldsCounts, DocsWords and Synonyms, and the words FST is
\* empty, in one step.
C20_ClearAllEmptiesMain ==
    [][(proc'.pc = "applied" /\ proc'.update.data.kind = "ClearAll")
       => /\ proc'.status.error = None
          /\ main'.schema = None
          /\ main'.ranking_rules = None
          /\ main'.ranking_distinct = None
          /\ main'.stop_words = None
          /\ main'.synonyms_fst = None
          /\ main'.customs = None
          /\ FstOrDefault(main'.words_fst) = {}
          /\ main'.postings_lists = EmptyFcn
          /\ main'.documents = EmptyFcn
          /\ main'.documents_fields_counts = EmptyFcn
          /\ main'.docs_words = EmptyFcn
          /\ main'.synonyms = EmptyFcn]_vars

----------------------------------------------------------------------------
\* C21: after any sequence of processed updates the words of the main words
\* FST are exactly the keys of PostingsLists, and none of these posting lists
\* is empty.
C21_WordsFstIsPostingsKeys ==
    /\ FstOrDefault(main.words_fst) = DOMAIN main.postings_lists
    /\ \A word \in DOMAIN main.postings_lists : main.postings_lists[word] # {}

\* A settings update gave stop words to an index that holds posting lists,
\* and took a word of the index with them.
C21_Witness ==
    /\ LastIsSettings /\ ~LastFailed
    /\ StopWordsOf(LastSettings) # {}
    /\ main.postings_lists # EmptyFcn
    /\ \E id \in DOMAIN main.docs_words :
           main.docs_words[id] \cap FstOrDefault(main.stop_words) # {}

----------------------------------------------------------------------------
\* The postings of the index: every DocIndex of every posting list.
AllPostings == UNION {main.postings_lists[word] : word \in DOMAIN main.postings_lists}

\* C22: every IndexedPos recorded in a posting list is resolved to a FieldId
\* by the current schema, also after a settings update that cleared the
\* identifier of an index that holds documents.
C22_IndexedPosResolvable ==
    \A p \in AllPostings :
        /\ main.schema # None
        /\ indexed_pos_to_field_id(Unwrap(main.schema), p.attribute) # None

----------------------------------------------------------------------------
----------------------------------------------------------------------------
\* merge(D, P): the top-level keys of P replace those of D, the keys of D
\* that P does not mention are kept.
TopLevelMerge(D, P) ==
    [k \in DOMAIN D \cup DOMAIN P |-> IF k \in DOMAIN P THEN P[k] ELSE D[k]]

\* The identifier attribute of the stored schema.
Identifier == Unwrap(main.schema).identifier

\* The update being applied is DocumentsPartial([P]) and a document is
\* stored under the identifier of P.
PatchesStored ==
    /\ proc'.id = proc.id + 1
    /\ proc'.update.data.kind = "DocumentsPartial"
    /\ Len(proc'.update.data.documents) = 1
    /\ main.schema # None
    /\ Identifier \in DOMAIN proc'.update.data.documents[1]
    /\ proc'.update.data.documents[1][Identifier] \in DOMAIN main.documents

----------------------------------------------------------------------------
\* The documents of a batch that are stored when the batch is processed:
\* for an id given twice the later document.
LastOfBatch(documents) ==
    {documents[i] : i \in {j \in 1..Len(documents) :
        \A k \in (j + 1)..Len(documents) :
            documents[k][Identifier] # documents[j][Identifier]}}

\* Every field of the document has a FieldId in the schema.
KnownToSchema(doc) ==
    \A name \in DOMAIN doc : schema_id(Unwrap(main.schema), name) # None

----------------------------------------------------------------------------
\* The single update that takes each field from S2 when S2 sets it and from
\* S1 otherwise.
LastWriteWins(S1, S2) ==
    [field \in DOMAIN S1 |-> IF S2[field].state # "Nothing" THEN S2[field] ELSE S1[field]]

\* The stored state the law compares: schema, ranking rules, stop words,
\* synonyms and posting lists; an FST counts for the words it holds.
ComposedState(w) ==
    [schema |-> w.schema, ranking_rules |-> w.ranking_rules,
     stop_words |-> FstOrDefault(w.stop_words), synonyms |-> w.synonyms,
     synonyms_fst |-> FstOrDefault(w.synonyms_fst),
     postings_lists |-> w.postings_lists]

\* The main environment the single update leaves when it is processed on the
\* index as it was before the two: the writer is committed when the update
\* is accepted and aborted otherwise.
SingleUpdate == apply_settings_update(proc.before, LastWriteWins(proc.first, LastSettings))
AfterSingleUpdate == IF SingleUpdate.err = None THEN SingleUpdate.w ELSE proc.before

----------------------------------------------------------------------------
\* What a reader has read is what one committed main environment holds.
Untorn(t) ==
    \E i \in 1..Len(Committed) :
        \A key \in DOMAIN readers[t].seen : readers[t].seen[key] = Committed[i][key]

\* C27: a reader never observes a torn update: what a main read transaction
\* has read is all of the writes of an update or none of them, for every
\* interleaving of the readers with the processor applying an update in
\* several steps.
C27_NoTornRead ==
    \A t \in Threads : readers[t].pc = "reading" => Untorn(t)

\* A reader has read every store through a transaction that it opened
\* before the last commit, while the processor is in the middle of the
\* steps of a settings update that has put the schema.
C27_Witness ==
    \E t \in Threads :
        /\ readers[t].pc = "reading"
        /\ DOMAIN readers[t].seen = ReaderKeys
        /\ readers[t].snapshot # main
        /\ proc.pc = "writing"
        /\ proc.data.kind = "Settings"
        /\ proc.step \in 7..9
        /\ proc.c.w # main

----------------------------------------------------------------------------
\* The key contains "id" in whatever case.
KeyContainsId(key) ==
    \E p \in 1..(Len(Chars(key)) - 1) :
        Chars(key)[p] \in {"i", "I"} /\ Chars(key)[p + 1] \in {"d", "D"}

\* The request gives no identifier query parameter and no key of its first
\* document contains "id".
GivesNoIdentifier(request) ==
    /\ request.query = None
    /\ request.data # <<>>
    /\ \A i \in 1..Len(request.data[1]) : ~KeyContainsId(request.data[1][i].key)

\* C28: a documents addition request on an index without schema that gives
\* no identifier query parameter and whose first document has no key
\* containing "id" is answered 400 and leaves the Updates store as it was;
\* every request that enqueues answers 202 with the update id allocated to
\* its addition.
C28_RejectedOrAccepted ==
    [][/\ \A t \in RouteThreads :
            (/\ readers'[t] # readers[t]
             /\ main.schema = None
             /\ GivesNoIdentifier(readers'[t].request))
            => /\ readers'[t].response.status = 400
               /\ Updates' = Updates
       /\ Updates' # Updates
            => \E t \in RouteThreads :
                  LET response == readers'[t].response
                  IN /\ readers'[t] # readers[t]
                     /\ response.status = 202
                     /\ response.update_id \in DOMAIN Updates' \ DOMAIN Updates
                     /\ response.update_id = SetMax(DOMAIN Updates')
                     /\ Updates'[response.update_id].data.kind
                            \in {"DocumentsAddition", "DocumentsPartial"}]_vars

\* A request of two documents, the second with a key that contains "id",
\* was answered 400 on an index without schema while the updates of an
\* earlier request wait in the Updates store.
C28_Witness ==
    \E t \in RouteThreads :
        /\ "response" \in DOMAIN readers[t]
        /\ readers[t].response.status = 400
        /\ Len(readers[t].request.data) = 2
        /\ GivesNoIdentifier(readers[t].request)
        /\ main.schema = None
        /\ DOMAIN Updates # {}

----------------------------------------------------------------------------
\* The numeric order of the pairs.
PairLess(a1, a2, b1, b2) == a1 < b1 \/ (a1 = b1 /\ a2 < b2)

\* C29: key order equals numeric order: for two DocumentFieldStored keys,
\* two DocumentFieldIndexed keys and two update ids the lexicographic order of
\* the big-endian encodings is the numeric order of the tuples, and last()
\* of Updates is the row of the numerically greatest id.
C29_KeyOrderIsNumericOrder ==
    /\ \A a \in rows.documents_fields, b \in rows.documents_fields :
           LexLess(a.key, b.key) <=> PairLess(a.docid, a.field_id, b.docid, b.field_id)
    /\ \A a \in rows.documents_fields_counts, b \in rows.documents_fields_counts :
           LexLess(a.key, b.key)
           <=> PairLess(a.docid, a.indexed_pos, b.docid, b.indexed_pos)
    /\ \A a \in rows.updates, b \in rows.updates :
           LexLess(a.key, b.key) <=> a.update_id < b.update_id
    /\ rows.updates # {}
           => Unwrap(store_last(rows.updates)).update_id
              = SetMax({row.update_id : row \in rows.updates})

\* Updates holds ids that differ in their low byte only and ids that differ
\* in a higher byte, the greatest one with a low byte of 0.
C29_Witness ==
    /\ \E a \in rows.updates, b \in rows.updates :
           a.update_id < b.update_id /\ a.update_id % 256 > b.update_id % 256
    /\ \E a \in rows.updates, b \in rows.updates :
           a.update_id < b.update_id /\ a.update_id \div 256 = b.update_id \div 256
    /\ SetMax({row.update_id : row \in rows.updates}) % 256 = 0
    /\ rows.updates # {}

----------------------------------------------------------------------------
\* Stop-word sets given to apply_stop_words_update.
StopWordSets == SUBSET {"the", "a", "wolf"}

\* The stop words a settings update gives: the list of an Update, no word
\* for a Clear.
GivenStopWords(settings) ==
    IF settings.stop_words.state = "Update" THEN settings.stop_words.v ELSE {}

\* C30: after apply_stop_words_update(S) the stored stop-word FST is exactly
\* S, for every previous stop-word set O and every S, also when S adds and
\* removes words in one update; the function returns true if and only if
\* O \ S is not empty.  Checked on every main environment an index reaches,
\* and on the settings updates processed: one that gives stop words leaves
\* them stored, and one that gives only stop words and required a reindex
\* removed a word.
C30_StopWordsStoredExactly ==
    /\ \A S \in StopWordSets :
           LET O == FstOrDefault(main.stop_words)
               r == apply_stop_words_update(main, S)
           IN /\ FstOrDefault(r.w.stop_words) = S
              /\ r.must_reindex <=> (O \ S # {})
    /\ (proc.pc \in {"first", "second"}
         /\ proc.update.data.settings.stop_words.state # "Nothing")
           => FstOrDefault(main.stop_words) = GivenStopWords(proc.update.data.settings)
    /\ (proc.pc = "first"
         /\ proc.update.data.settings
              = [DefaultSettings EXCEPT !.stop_words = proc.update.data.settings.stop_words])
           => FstOrDefault(proc.before.stop_words)
              \ GivenStopWords(proc.update.data.settings) # {}

\* A settings update that gave "a" for a stop-word FST of "the" was
\* processed: it adds a word and removes one, and "a" alone is stored.
C30_Witness ==
    /\ proc.pc = "first"
    /\ proc.before.stop_words = Some({"the"})
    /\ proc.update.data.settings.stop_words = UpdateOf({"a"})
    /\ main.stop_words = Some({"a"})

----------------------------------------------------------------------------
\* The context of apply_settings_update after its step k on the writer w.
RECURSIVE SettingsAfter(_, _, _)
SettingsAfter(k, w, settings) ==
    IF k = 1 THEN SettingsStep(1, [w |-> w], settings)
    ELSE SettingsStep(k, SettingsAfter(k - 1, w, settings), settings)

\* The conditions C31 gives for the reindex.
ReindexConditions(settings, w) ==
    \/ settings.ranking_rules.state # "Nothing"
    \/ settings.searchable_attributes.state # "Nothing"
    \/ settings.identifier.state = "Update"
    \/ /\ settings.stop_words.state # "Nothing"
       /\ FstOrDefault(w.stop_words) \ GivenStopWords(settings) # {}

\* A settings update that touches ranking_distinct, index_new_fields,
\* displayed_attributes and synonyms only, or that adds stop words only.
TouchesNoIndexedField(settings, w) ==
    /\ settings.ranking_rules.state = "Nothing"
    /\ settings.searchable_attributes.state = "Nothing"
    /\ settings.identifier.state = "Nothing"
    /\ settings.stop_words.state # "Nothing"
          => FstOrDefault(w.stop_words) \subseteq GivenStopWords(settings)

\* C31: a successful settings update runs the full reindex if and only if
\* its ranking_rules are not Nothing, or its searchable_attributes are not
\* Nothing, or its identifier is Update(v), or it removes a stored stop
\* word (the writer it leaves is then the reindexed one); an update that only
\* touches ranking_distinct, index_new_fields, displayed_attributes,
\* synonyms, or only adds stop words, leaves DocsWords and the posting list
\* of every word that is no stop word unchanged.
C31_ReindexIffConditions ==
    [][(LastIsSettings' /\ proc'.status.error = None)
       => LET settings == LastSettings'
              c == SettingsAfter(LastStep - 1, main, settings)
              stop_words == FstOrDefault(main'.stop_words)
          IN /\ c.must_reindex <=> ReindexConditions(settings, main)
             /\ ReindexConditions(settings, main)
                   => LET w == reindex_all_documents(c.w)
                      IN main' = IF settings.identifier.state = "Clear"
                                 THEN [w EXCEPT !.schema = None] ELSE w
             /\ TouchesNoIndexedField(settings, main)
                   => /\ main'.docs_words = main.docs_words
                      /\ DOMAIN main'.postings_lists \subseteq DOMAIN main.postings_lists
                      /\ \A word \in DOMAIN main.postings_lists \ stop_words :
                            /\ word \in DOMAIN main'.postings_lists
                            /\ main'.postings_lists[word] = main.postings_lists[word]]_vars

\* The displayed attributes were set on an index whose DocsWords still
\* names "the", a stop word by now, for the document "the wolf": no reindex
\* ran, which would have dropped it.
C31_Witness ==
    /\ LastIsSettings /\ ~LastFailed
    /\ LastSettings = [DefaultSettings EXCEPT !.displayed_attributes = UpdateOf(<<"title">>)]
    /\ main.stop_words = Some({"the"})
    /\ "1" \in DOMAIN main.docs_words
    /\ "the" \in main.docs_words["1"]
    /\ "wolf" \in DOMAIN main.postings_lists

----------------------------------------------------------------------------
\* The committed updates that have no result.
CommittedPending == DOMAIN Updates \ DOMAIN UpdatesResults

\* C32: no committed update is stranded by the notifier, although the
\* NewUpdate signal is sent before the update is written and before the
\* enqueuing transaction commits: the processor never waits for an event
\* that only a later enqueue can send (no signal pending, no enqueuing
\* transaction open) while a committed update has no result.
C32_NoCommittedUpdateStranded ==
    ~(/\ proc.pc = "waiting"
      /\ ~notifier
      /\ writer = NoThread
      /\ CommittedPending # {})

----------------------------------------------------------------------------
\* The updates that set the identifier for a documents addition.
IsIdentifierUpdate(update) ==
    /\ update.data.kind = "Settings"
    /\ update.data.settings.identifier.state = "Update"
    /\ update.data.settings
          = [DefaultSettings EXCEPT !.identifier = update.data.settings.identifier]

IsAddition(update) == update.data.kind \in {"DocumentsAddition", "DocumentsPartial"}

\* The requests answered 202 that found no schema.
AcceptedWithoutSchema ==
    {t \in Threads : /\ readers[t].pc = "idle"
                     /\ "response" \in DOMAIN readers[t]
                     /\ readers[t].response.status = 202
                     /\ readers[t].current_schema = None}

\* C33: when a documents addition request reaches an index without schema,
\* the identifier settings update and the addition are written in one update
\* write transaction under the ids n and n + 1, settings first: either both
\* are in the Updates store or neither is (also while the transaction is
\* open), and the settings update has its result before the addition has.
C33_SettingsAndAdditionTogether ==
    /\ \A n \in DOMAIN Updates :
          IsIdentifierUpdate(Updates[n])
          => /\ n + 1 \in DOMAIN Updates
             /\ IsAddition(Updates[n + 1])
             /\ Updates[n + 1].enqueued_at = Updates[n].enqueued_at + 1
             /\ n + 1 \in DOMAIN UpdatesResults => n \in DOMAIN UpdatesResults
    /\ \A t \in AcceptedWithoutSchema :
          LET m == readers[t].response.update_id
          IN /\ m \in DOMAIN Updates /\ IsAddition(Updates[m])
             /\ m - 1 \in DOMAIN Updates /\ IsIdentifierUpdate(Updates[m - 1])
    /\ \A t \in Threads :
          (readers[t].pc \in {"addition", "commit"} /\ readers[t].current_schema = None)
          => \E n \in DOMAIN wUpdates \ DOMAIN Updates : IsIdentifierUpdate(wUpdates[n])

\* A request that found no schema was answered 202 and its settings update
\* was processed while its addition was not yet, and another request holds
\* the write transaction with its settings update pushed.
C33_Witness ==
    /\ \E n \in DOMAIN UpdatesResults :
          /\ IsIdentifierUpdate(Updates[n])
          /\ n + 1 \notin DOMAIN UpdatesResults
    /\ \E t \in Threads :
          /\ readers[t].pc = "addition"
          /\ readers[t].current_schema = None
          /\ DOMAIN wUpdates \ DOMAIN Updates # {}

----------------------------------------------------------------------------
\* C34: for any interleaving of documents addition requests sent to an
\* index without schema, no identifier settings update that a request
\* generated is recorded as Failed.
C34_NoGeneratedSettingsFailed ==
    \A id \in DOMAIN UpdatesResults :
        IsIdentifierUpdate(Updates[id]) => UpdatesResults[id].error = None

----------------------------------------------------------------------------
\* C35: store::clear erases the index data and the update history together:
\* after it all eight stores are empty, update_status(id) is None for every
\* id, all_updates_status is empty, and the next enqueued update receives id
\* 0, an id handed out before the clear.
C35_ClearErasesDataAndHistory ==
    [][store_clear
       => /\ main' = EmptyMain
          /\ DOMAIN Updates' = {} /\ DOMAIN UpdatesResults' = {}
          /\ \A id \in UpdateIds : update_status(Updates', UpdatesResults', id) = None
          /\ all_updates_status(Updates', UpdatesResults') = <<>>
          /\ next_update_id(Updates', UpdatesResults') = 0
          /\ \A update \in {NewUpdate([kind |-> "ClearAll"])} :
                push_update(Updates', UpdatesResults', update).id = 0]_vars

\* An update was committed under id 0 after store::clear had erased the
\* updates enqueued before it (the clock had moved twice by then): id 0 was
\* handed out again, and neither a result nor index data is left.
C35_Witness ==
    /\ 0 \in DOMAIN Updates
    /\ Updates[0].enqueued_at > 1
    /\ UpdatesResults = EmptyFcn
    /\ main = EmptyMain
    /\ clock > Updates[0].enqueued_at

----------------------------------------------------------------------------
\* The databases an index opened in the main environment and in the update
\* environment.
MainDatabases(index) ==
    {index.main, index.postings_lists, index.documents_fields,
     index.documents_fields_counts, index.synonyms, index.docs_words}

UpdateDatabases(index) == {index.updates, index.updates_results}

\* C36: distinct index names never share a sub-database: for two index
\* names a # b the eight store names derived from a are disjoint from the
\* eight derived from b.
C36_StoreNamesDisjoint ==
    \A a \in DOMAIN indexes, b \in DOMAIN indexes :
        a # b => /\ MainDatabases(indexes[a]) \cap MainDatabases(indexes[b]) = {}
                 /\ UpdateDatabases(indexes[a]) \cap UpdateDatabases(indexes[b]) = {}

----------------------------------------------------------------------------
\* Document ids and attribute filters given to Index::document: ids with
\* and without stored fields, names the schema knows and names it does not.
AskedDocumentIds == {"1", "2", "3"}
AskedAttributes == {None} \cup {Some(names) : names \in SUBSET {"id", "title", "zzz"}}

\* C37: Index::document fails with SchemaMissing whenever the index has no
\* schema, whatever the document id and also when fields of the document are
\* still stored; with a schema and an attribute filter, names unknown to the
\* schema cause no error, and only stored fields whose names are in the
\* filter are returned.
C37_DocumentNeedsSchema ==
    \A document_id \in AskedDocumentIds, attributes \in AskedAttributes :
        LET r == document(main, attributes, document_id)
        IN IF main.schema = None
           THEN r = [val |-> None, err |-> Some(SchemaMissing)]
           ELSE /\ r.err = None
                /\ (r.val # None /\ attributes # None)
                      => DOMAIN Unwrap(r.val) \subseteq Unwrap(attributes)
                /\ r.val # None
                      => /\ document_id \in DOMAIN main.documents
                         /\ \A name \in DOMAIN Unwrap(r.val) :
                               /\ name \in DOMAIN main.documents[document_id]
                               /\ Unwrap(r.val)[name] = main.documents[document_id][name]

\* The identifier was cleared on an index that holds the fields of
\* document 1: the schema is gone and the fields are still stored.
C37_Witness ==
    /\ LastIsSettings /\ ~LastFailed
    /\ LastSettings.identifier = Clear
    /\ main.schema = None
    /\ "1" \in DOMAIN main.documents
    /\ "title" \in DOMAIN main.documents["1"]

====
